---- MODULE Spec2Model ----
(***************************************************************************)
(* Model of the client streaming core of the agent directory:              *)
(*   client/streaming/push.go, pull.go, lookup.go  (PushStream,            *)
(*   PullStream, LookupStream: a sender and a receiver goroutine over one  *)
(*   bidirectional backend stream),                                        *)
(*   DeleteStream of the same package (one goroutine over a                *)
(*   client-streaming backend stream) and the scalar wrappers              *)
(*   Client.Push, Client.Pull, Client.Lookup, Client.Delete.               *)
(*                                                                         *)
(* One behaviour of Spec is one call of one stream op.  The three bidi ops *)
(* have the same control flow (they differ in message types and error      *)
(* texts only), so they share the sender/receiver actions; op records      *)
(* which one runs.                                                         *)
(***************************************************************************)
EXTENDS Naturals, Integers, Sequences, FiniteSets, TLC

\* Bounds of the model
MaxItems == 3   \* items the producer feeds on the input channel
InCap    == 1   \* buffer capacity of the caller's input channel

Ops     == {"push", "pull", "lookup", "delete"}
BidiOps == {"push", "pull", "lookup"}
NoItem  == -1   \* "concerns no input item"

VARIABLES
  op,          \* which stream op this call is
  wrapper,     \* TRUE: called through a scalar wrapper (Client.Push/Pull/Lookup/Delete)
  cancelled,   \* ctx.Done() is closed
  fed,         \* items the producer has put on inStream so far
  inBuf,       \* items waiting in inStream
  inClosed,    \* inStream is closed
  consumed,    \* items the op has taken from inStream
  out,         \* results delivered on outStream, in delivery order
  outClosed,   \* outStream is closed
  mpc,         \* position of the outer goroutine (for delete: the only goroutine)
  spc,         \* position of the sender goroutine
  rpc,         \* position of the receiver goroutine
  sIndex,      \* the sender's (delete: the loop's) index variable
  rIndex,      \* the receiver's index variable
  rItem,       \* request the response held by the receiver answers
  opens,       \* calls of client.Push/Pull/Lookup/Delete(ctx)
  sent,        \* items the backend stream accepted
  sentStreams, \* the streams items were sent on (numbered by opens)
  answers,     \* outcome of each request the backend has processed, in order
  respQ,       \* responses of the backend not yet returned by Recv
  ended,       \* the backend has ended its response stream
  closeCalls,  \* calls of CloseSend / CloseAndRecv
  faults,      \* kinds of backend failure that have occurred
  acked,       \* delete: the terminal acknowledgment was received
  ret,         \* what the scalar wrapper returned
  pulled,      \* outcome of a Client.Pull(ref) issued after Client.Delete(ref) returned
  \* server/store/oci/tags.go: one call of normalizeTagForOCI and a second
  \* call on its result
  npc,         \* "off", or how far the calls have got: "in", "out", "again"
  tagIn,       \* the argument
  tagOut,      \* normalizeTagForOCI(tagIn)
  tagAgain,    \* normalizeTagForOCI(tagOut)
  \* server/store/oci/tags.go: one call of generateTagsFromMetadata, and a
  \* call with the same arguments and no limit on the number of tags
  gpc,         \* "off", or how far the calls have got: "in", "out", "all"
  metadata, cid, strategy,   \* the arguments
  tags,        \* generateTagsFromMetadata(metadata, cid, strategy)
  allTags,     \* the same with strategy.MaxTagsPerRecord = 0
  \* server/store/oci: the registry, and one call of pushManifestWithTags
  ppc,         \* "off", "idle" (no call running) or "tagging" (in the loop)
  manifests,   \* digests of the manifests in the repository
  tagMap,      \* tag -> digest, as the repository resolves it
  pushing,     \* the record of the running or last call
  todo,        \* tags the loop has not reached
  nTags,       \* len(tags)
  tagErrors,   \* len(tagErrors)
  pushResult,  \* what the last call returned: "none", "ok", "Internal"
  pushes,      \* calls made
  attempts,    \* oras.Tag calls of the running or last call
  failed,      \* <<digest, tag>> of every oras.Tag call that failed
  \* server/authz: one call of Authorize
  apc,            \* "off", "call" (before the evaluation) or "done"
  authorizer,     \* "casbin" (rule-based) or "opa" (policy bundle)
  cfgTrustDomain, \* cfg.TrustDomain the rule-based policy was built from
  trustDomain,    \* the caller's trust domain
  apiMethod,      \* the method called
  bundleAllow,    \* what the bundle's data.authz.allow is for the input
  allowed,        \* the boolean Authorize returned
  authErr,        \* whether the evaluation returned an error
  \* api/core/v1: the canonical codec applied to two records
  cpc,         \* "off", "marshal1", "marshal2", "unmarshal", "remarshal", "done"
  rec1, rec2,  \* the records
  enc1, enc2,  \* what CanonicalMarshal returned for them
  dec,         \* what CanonicalUnmarshal returned for enc1's bytes
  enc3,        \* what CanonicalMarshal returned for the decoded record
  \* types: one call of LoadOASFFromReader
  lpc,         \* "off", "read", "detect", "switch", "done"
  input,       \* the JSON document behind the reader
  version,     \* what DetectOASFVersion returned
  detectErr,   \* whether it returned an error
  loaded,      \* the variant set in the record returned, "nil" for no record
  loadErr,     \* the error returned: "none", "read", "detect", "unmarshal", "unsupported"
  \* store and routing services
  store,       \* the manifests of the registry: [cid, bytes]
  edges,       \* the routing index: <<label, cid>>
  pushed,      \* [record, cid] for every Push that returned cid, until cid is deleted
  published,   \* the CIDs whose last successful routing call was publish
  retired,     \* the CIDs whose last successful routing call was unpublish
  reply,       \* the last call made and what it returned
  \* client: one call of PushBatch / PullBatch / LookupBatch
  bpc,         \* "off", "call", "drain", "returned"
  bn,          \* len(records)
  taken,       \* results the range loop over results has processed
  refs,        \* the slice returned, by the input position of each value
  firstError,  \* the error returned: "nil" or the kind of an error result
  \* blockchain: the AgentStore contract
  total_agents, \* uint256 private total_agents
  agents,       \* mapping(string => Agent) private agents
  stored,       \* the ids for which an add succeeded
  receipt       \* the last transaction: its request, sender and outcome

streamVars == <<op, wrapper, cancelled, fed, inBuf, inClosed, consumed, out, outClosed,
                mpc, spc, rpc, sIndex, rIndex, rItem, opens, sent, sentStreams,
                answers, respQ, ended, closeCalls, faults, acked, ret, pulled>>

normVars == <<npc, tagIn, tagOut, tagAgain>>
genVars  == <<gpc, metadata, cid, strategy, tags, allTags>>
regVars  == <<ppc, manifests, tagMap, pushing, todo, nTags, tagErrors, pushResult,
              pushes, attempts, failed>>
tagVars  == <<normVars, genVars, regVars>>

authVars == <<apc, authorizer, cfgTrustDomain, trustDomain, apiMethod, bundleAllow,
               allowed, authErr>>
codecVars == <<cpc, rec1, rec2, enc1, enc2, dec, enc3>>
loadVars == <<lpc, input, version, detectErr, loaded, loadErr>>
dirVars == <<store, edges, pushed, published, retired, reply>>
batchVars == <<bpc, bn, taken, refs, firstError>>
agentVars == <<total_agents, agents, stored, receipt>>
moreVars == <<authVars, codecVars, loadVars, dirVars, batchVars, agentVars>>

vars == <<streamVars, tagVars, moreVars>>

prodVars == <<fed, inBuf, inClosed>>
outVars  == <<out, ret>>
backVars == <<answers, respQ, ended>>
callVars == <<op, wrapper>>

\* Requests processed, refs deleted, and whether a deletion failed
answered   == Len(answers)
deleted    == {i \in 0..(Len(answers) - 1) : answers[i + 1] = "ok"}
backendErr == \E i \in 1..Len(answers) : answers[i] = "err"

----------------------------------------------------------------------------
\* Results and the output channel

\* PushResult / PullResult / LookupResult / DeleteResult.  kind "ok" is a
\* result with Error == nil; the other kinds are the four error texts.
\* item is not a field of the struct: it records which input position the
\* result is about (NoItem when it is about none).
Result(kind, index, item) == [kind |-> kind, Index |-> index, item |-> item]

\* outStream is unbuffered: a send completes only with a receiving caller.
\* A streaming caller ranges over outStream; a scalar wrapper receives once.
ConsumerReady == ~outClosed /\ (~wrapper \/ ret = "none")

\* case outStream <- r:
Emit(r) ==
  /\ ConsumerReady
  /\ out' = Append(out, r)
  /\ ret' = IF wrapper THEN (IF r.kind = "ok" THEN "ok" ELSE "err") ELSE ret

----------------------------------------------------------------------------
\* The tag planner is not part of a stream call
NormOff == npc = "off" /\ tagIn = <<>> /\ tagOut = <<>> /\ tagAgain = <<>>

DefaultMaxTags == 20
DefaultTagStrategy ==
  [EnableNameTags |-> TRUE, EnableCapabilityTags |-> TRUE,
   EnableInfrastructureTags |-> TRUE, EnableTeamTags |-> TRUE,
   EnableContentAddressable |-> TRUE, MaxTagsPerRecord |-> DefaultMaxTags]

\* a map[string]string without keys: every lookup gives ""
NoMetadata ==
  [name |-> <<>>, version |-> <<>>, skills |-> <<>>, extensions |-> <<>>,
   locators |-> <<>>, team |-> <<>>, organization |-> <<>>, project |-> <<>>]

GenOff ==
  /\ gpc = "off"
  /\ metadata = NoMetadata
  /\ cid = <<>>
  /\ strategy = DefaultTagStrategy
  /\ tags = <<>>
  /\ allTags = <<>>

NoRecord == [cid |-> <<>>, metadata |-> NoMetadata]

\* an empty repository
RegEmpty ==
  /\ manifests = {}
  /\ tagMap = <<>>
  /\ pushing = NoRecord
  /\ todo = <<>>
  /\ nTags = 0
  /\ tagErrors = 0
  /\ pushResult = "none"
  /\ pushes = 0
  /\ attempts = 0
  /\ failed = {}

RegOff == ppc = "off" /\ RegEmpty

TagsOff == NormOff /\ GenOff /\ RegOff

\* no call of Authorize
AuthOff ==
  /\ apc = "off"
  /\ authorizer = "casbin"
  /\ cfgTrustDomain = ""
  /\ trustDomain = ""
  /\ apiMethod = ""
  /\ bundleAllow = "undefined"
  /\ allowed = FALSE
  /\ authErr = FALSE

\* The fields of a record's variant message, in the order of their
\* declaration; "" is the zero value of a field
DeclaredFields == <<"name", "version", "description">>
FieldNames     == {DeclaredFields[i] : i \in 1..Len(DeclaredFields)}
ZeroFields     == [f \in FieldNames |-> ""]

\* a nil *Record; a JSON text is nil, or an object with no member or with
\* the member of the variant set, written with or without white space
NilRecord == [data |-> "nil", fields |-> ZeroFields]
NilBytes  == [nil |-> TRUE, space |-> FALSE, top |-> "none", members |-> <<>>]
NotEncoded == [err |-> "unset", bytes |-> NilBytes]
NotDecoded == [err |-> "unset", record |-> NilRecord]

CodecOff ==
  /\ cpc = "off"
  /\ rec1 = NilRecord /\ rec2 = NilRecord
  /\ enc1 = NotEncoded /\ enc2 = NotEncoded /\ dec = NotDecoded /\ enc3 = NotEncoded

\* a JSON document: malformed, null, an array, or an object with its
\* schema_version member and the variants whose Go type its members fit
NullDocument == [kind |-> "null", schemaVersion |-> "absent", fits |-> {"v1", "v2", "v3"}]

LoadOff ==
  /\ lpc = "off"
  /\ input = NullDocument
  /\ version = ""
  /\ detectErr = FALSE
  /\ loaded = "nil"
  /\ loadErr = "none"

NoReply == [op |-> "none", ref |-> <<>>, err |-> "none", record |-> NilRecord, query |-> {}, items |-> <<>>]

DirOff ==
  /\ store = {}
  /\ edges = {}
  /\ pushed = {}
  /\ published = {}
  /\ retired = {}
  /\ reply = NoReply

BatchOff ==
  /\ bpc = "off"
  /\ bn = 0
  /\ taken = 0
  /\ refs = <<>>
  /\ firstError = "nil"

\* the ids, signatures and accounts of the transactions sent
AgentIds == {"", "a", "b"}
Signatures == {"s1", "s2"}
Accounts == {"0xA", "0xB"}

\* the value of a mapping slot never written
ZeroAgent == [id |-> "", signature |-> "", owner |-> "0x0"]
NoReceipt == [id |-> "", signature |-> "", sender |-> "0x0", status |-> "none"]

\* the contract right after deployment
Deployed ==
  /\ total_agents = 0
  /\ agents = [i \in AgentIds |-> ZeroAgent]
  /\ stored = {}
  /\ receipt = NoReceipt

MoreOff == AuthOff /\ CodecOff /\ LoadOff /\ DirOff /\ BatchOff /\ Deployed

\* The state right after PushStream (PullStream, ...) returned outStream
StreamInit ==
  /\ op \in Ops
  /\ wrapper \in BOOLEAN
  /\ cancelled = FALSE
  /\ fed = (IF wrapper THEN 1 ELSE 0)
  /\ inBuf = (IF wrapper THEN 1 ELSE 0)
  /\ inClosed = wrapper
  /\ consumed = 0
  /\ out = <<>>
  /\ outClosed = FALSE
  /\ mpc = "create"
  /\ spc = "idle"
  /\ rpc = "idle"
  /\ sIndex = 0
  /\ rIndex = 0
  /\ rItem = NoItem
  /\ opens = 0
  /\ sent = 0
  /\ sentStreams = {}
  /\ answers = <<>>
  /\ respQ = <<>>
  /\ ended = FALSE
  /\ closeCalls = 0
  /\ faults = {}
  /\ acked = FALSE
  /\ ret = "none"
  /\ pulled = "none"

Init == StreamInit /\ TagsOff /\ MoreOff

----------------------------------------------------------------------------
\* The caller: producer of inStream and owner of ctx

Produce ==
  /\ ~wrapper /\ ~inClosed /\ fed < MaxItems /\ inBuf < InCap
  /\ fed' = fed + 1
  /\ inBuf' = inBuf + 1
  /\ UNCHANGED <<moreVars, tagVars, callVars, cancelled, inClosed, consumed, outVars, outClosed, mpc, spc, rpc,
                 sIndex, rIndex, rItem, opens, sent, sentStreams, backVars,
                 closeCalls, faults, acked, pulled>>

CloseIn ==
  /\ ~wrapper /\ ~inClosed
  /\ inClosed' = TRUE
  /\ UNCHANGED <<moreVars, tagVars, callVars, cancelled, fed, inBuf, consumed, outVars, outClosed, mpc, spc, rpc,
                 sIndex, rIndex, rItem, opens, sent, sentStreams, backVars,
                 closeCalls, faults, acked, pulled>>

Cancel ==
  /\ ~cancelled
  /\ cancelled' = TRUE
  /\ UNCHANGED <<moreVars, tagVars, callVars, prodVars, consumed, outVars, outClosed, mpc, spc, rpc,
                 sIndex, rIndex, rItem, opens, sent, sentStreams, backVars,
                 closeCalls, faults, acked, pulled>>

----------------------------------------------------------------------------
\* The outer goroutine of PushStream / PullStream / LookupStream / DeleteStream

\* stream, err := client.Push(ctx)   (Pull, Lookup, Delete alike)
\* A stream cannot be created on a cancelled ctx.
CreateStream ==
  /\ mpc = "create"
  /\ opens' = opens + 1
  /\ \/ /\ ~cancelled
        /\ IF op = "delete"
             THEN mpc' = "range" /\ UNCHANGED <<spc, rpc>>
             ELSE mpc' = "wait" /\ spc' = "range" /\ rpc' = "recv"
        /\ UNCHANGED faults
     \/ /\ mpc' = "createErr"
        /\ faults' = faults \cup {"create"}
        /\ UNCHANGED <<spc, rpc>>
  /\ UNCHANGED <<moreVars, tagVars, callVars, cancelled, prodVars, consumed, outVars, outClosed,
                 sIndex, rIndex, rItem, sent, sentStreams, backVars,
                 closeCalls, acked, pulled>>

\* Variant of CreateErr: the return after the error result is missing, the
\* call goes on to start its tasks.
CreateErrNoReturn ==
  /\ mpc = "createErr"
  /\ \/ cancelled /\ UNCHANGED outVars /\ mpc' = "closing" /\ UNCHANGED <<spc, rpc>>
     \/ /\ Emit(Result("create", 0, NoItem))
        /\ IF op = "delete"
             THEN mpc' = "range" /\ UNCHANGED <<spc, rpc>>
             ELSE mpc' = "wait" /\ spc' = "range" /\ rpc' = "recv"
  /\ UNCHANGED <<moreVars, tagVars, callVars, cancelled, prodVars, consumed, outClosed,
                 sIndex, rIndex, rItem, opens, sent, sentStreams, backVars,
                 closeCalls, faults, acked, pulled>>

\* if err != nil { select { case <-ctx.Done(): return
\*                          case outStream <- Result{Error: "failed to create ..."}: }; return }
CreateErr ==
  /\ mpc = "createErr"
  /\ \/ cancelled /\ UNCHANGED outVars
     \/ Emit(Result("create", 0, NoItem))
  /\ mpc' = "closing"
  /\ UNCHANGED <<moreVars, tagVars, callVars, cancelled, prodVars, consumed, outClosed, spc, rpc,
                 sIndex, rIndex, rItem, opens, sent, sentStreams, backVars,
                 closeCalls, faults, acked, pulled>>

\* Variant of Wait: wg.Add(1) is missing for the receiver, the outer
\* goroutine waits for the sender only.
WaitForSenderOnly ==
  /\ mpc = "wait" /\ spc = "done"
  /\ mpc' = "closing"
  /\ UNCHANGED <<moreVars, tagVars, callVars, cancelled, prodVars, consumed, outVars, outClosed, spc, rpc,
                 sIndex, rIndex, rItem, opens, sent, sentStreams, backVars,
                 closeCalls, faults, acked, pulled>>

\* wg.Wait()
Wait ==
  /\ mpc = "wait" /\ spc = "done" /\ rpc = "done"
  /\ mpc' = "closing"
  /\ UNCHANGED <<moreVars, tagVars, callVars, cancelled, prodVars, consumed, outVars, outClosed, spc, rpc,
                 sIndex, rIndex, rItem, opens, sent, sentStreams, backVars,
                 closeCalls, faults, acked, pulled>>

\* defer close(outStream).  A scalar wrapper still waiting in
\* `result := <-results` receives the zero value.
CloseOut ==
  /\ mpc = "closing"
  /\ outClosed' = TRUE
  /\ mpc' = "done"
  /\ ret' = IF wrapper /\ ret = "none" THEN "empty" ELSE ret
  /\ UNCHANGED <<moreVars, tagVars, callVars, cancelled, prodVars, consumed, out, spc, rpc,
                 sIndex, rIndex, rItem, opens, sent, sentStreams, backVars,
                 closeCalls, faults, acked, pulled>>

----------------------------------------------------------------------------
\* Goroutine 1 of the bidi ops: send items to the backend

\* for record := range inStream
SenderRange ==
  /\ spc = "range"
  /\ \/ /\ inBuf > 0
        /\ inBuf' = inBuf - 1
        /\ consumed' = consumed + 1
        /\ spc' = "select"
     \/ /\ inBuf = 0 /\ inClosed
        /\ spc' = "closeSend"
        /\ UNCHANGED <<inBuf, consumed>>
  /\ UNCHANGED <<moreVars, tagVars, callVars, cancelled, fed, inClosed, outVars, outClosed, mpc, rpc,
                 sIndex, rIndex, rItem, opens, sent, sentStreams, backVars,
                 closeCalls, faults, acked, pulled>>

\* select { case <-ctx.Done(): return; default: ... }
SenderSelect ==
  /\ spc = "select"
  /\ spc' = IF cancelled THEN "closeSend" ELSE "send"
  /\ UNCHANGED <<moreVars, tagVars, callVars, cancelled, prodVars, consumed, outVars, outClosed, mpc, rpc,
                 sIndex, rIndex, rItem, opens, sent, sentStreams, backVars,
                 closeCalls, faults, acked, pulled>>

\* Variant of SenderSend: a stream is opened for every record instead of
\* reusing the one created at the start.
SenderSendStreamPerRecord ==
  /\ spc = "send"
  /\ opens' = opens + 1
  /\ \/ /\ sent' = sent + 1
        /\ sentStreams' = sentStreams \cup {opens + 1}
        /\ sIndex' = sIndex + 1
        /\ spc' = "range"
        /\ UNCHANGED faults
     \/ /\ faults' = faults \cup {"send"}
        /\ spc' = "sendErr"
        /\ UNCHANGED <<sent, sentStreams, sIndex>>
  /\ UNCHANGED <<moreVars, tagVars, callVars, cancelled, prodVars, consumed, outVars, outClosed, mpc, rpc,
                 rIndex, rItem, backVars, closeCalls, acked, pulled>>

\* if err := stream.Send(record); err != nil {...}; index++
SenderSend ==
  /\ spc = "send"
  /\ \/ /\ sent' = sent + 1
        /\ sentStreams' = sentStreams \cup {opens}
        /\ sIndex' = sIndex + 1
        /\ spc' = "range"
        /\ UNCHANGED faults
     \/ /\ faults' = faults \cup {"send"}
        /\ spc' = "sendErr"
        /\ UNCHANGED <<sent, sentStreams, sIndex>>
  /\ UNCHANGED <<moreVars, tagVars, callVars, cancelled, prodVars, consumed, outVars, outClosed, mpc, rpc,
                 rIndex, rItem, opens, backVars, closeCalls, acked, pulled>>

\* Variant of SenderSendErr: the return after the error result is missing,
\* the sender goes on with the next record.
SenderSendErrNoReturn ==
  /\ spc = "sendErr"
  /\ \/ cancelled /\ UNCHANGED outVars /\ spc' = "closeSend"
     \/ Emit(Result("send", sIndex, consumed - 1)) /\ spc' = "range"
  /\ UNCHANGED <<moreVars, tagVars, callVars, cancelled, prodVars, consumed, outClosed, mpc, rpc,
                 sIndex, rIndex, rItem, opens, sent, sentStreams, backVars,
                 closeCalls, faults, acked, pulled>>

\* select { case <-ctx.Done(): return
\*          case outStream <- Result{Error: "failed to send ... index", Index: index}: }; return
SenderSendErr ==
  /\ spc = "sendErr"
  /\ \/ cancelled /\ UNCHANGED outVars
     \/ Emit(Result("send", sIndex, consumed - 1))
  /\ spc' = "closeSend"
  /\ UNCHANGED <<moreVars, tagVars, callVars, cancelled, prodVars, consumed, outClosed, mpc, rpc,
                 sIndex, rIndex, rItem, opens, sent, sentStreams, backVars,
                 closeCalls, faults, acked, pulled>>

\* Variant of SenderCloseSend: the deferred CloseSend is missing, the sender
\* just returns.
SenderReturnsWithoutCloseSend ==
  /\ spc = "closeSend"
  /\ spc' = "done"
  /\ UNCHANGED <<moreVars, tagVars, callVars, cancelled, prodVars, consumed, outVars, outClosed, mpc, rpc,
                 sIndex, rIndex, rItem, opens, sent, sentStreams, backVars,
                 closeCalls, faults, acked, pulled>>

\* Variant of SenderCloseSend: the error test is inverted (err == nil), a
\* clean CloseSend is reported as a close failure.
SenderCloseSendInverted ==
  /\ spc = "closeSend"
  /\ closeCalls' = closeCalls + 1
  /\ \/ spc' = "closeErr" /\ UNCHANGED faults
     \/ spc' = "done" /\ faults' = faults \cup {"close"}
  /\ UNCHANGED <<moreVars, tagVars, callVars, cancelled, prodVars, consumed, outVars, outClosed, mpc, rpc,
                 sIndex, rIndex, rItem, opens, sent, sentStreams, backVars,
                 acked, pulled>>

\* defer func() { if err := stream.CloseSend(); err != nil {...} }()
SenderCloseSend ==
  /\ spc = "closeSend"
  /\ closeCalls' = closeCalls + 1
  /\ \/ spc' = "done" /\ UNCHANGED faults
     \/ spc' = "closeErr" /\ faults' = faults \cup {"close"}
  /\ UNCHANGED <<moreVars, tagVars, callVars, cancelled, prodVars, consumed, outVars, outClosed, mpc, rpc,
                 sIndex, rIndex, rItem, opens, sent, sentStreams, backVars,
                 acked, pulled>>

\* select { case <-ctx.Done(): return
\*          case outStream <- Result{Error: "failed to close send stream"}: }
SenderCloseErr ==
  /\ spc = "closeErr"
  /\ \/ cancelled /\ UNCHANGED outVars
     \/ Emit(Result("close", 0, NoItem))
  /\ spc' = "done"
  /\ UNCHANGED <<moreVars, tagVars, callVars, cancelled, prodVars, consumed, outClosed, mpc, rpc,
                 sIndex, rIndex, rItem, opens, sent, sentStreams, backVars,
                 closeCalls, faults, acked, pulled>>

----------------------------------------------------------------------------
\* Goroutine 2 of the bidi ops: receive results from the backend

\* recordRef, err := stream.Recv(); if err == io.EOF { break }; if err != nil {...}
\* Recv on a stream whose ctx is cancelled returns the ctx error.
ReceiverRecv ==
  /\ rpc = "recv"
  /\ \/ /\ respQ # <<>>
        /\ respQ' = Tail(respQ)
        /\ rItem' = Head(respQ).req
        /\ rpc' = CASE Head(respQ).r = "EOF" -> "done"
                    [] Head(respQ).r = "ok"  -> "emitOk"
                    [] OTHER                 -> "emitErr"
     \/ /\ cancelled
        /\ rItem' = NoItem
        /\ rpc' = "emitErr"
        /\ UNCHANGED respQ
  /\ UNCHANGED <<moreVars, tagVars, callVars, cancelled, prodVars, consumed, outVars, outClosed, mpc, spc,
                 sIndex, rIndex, opens, sent, sentStreams, answers, ended,
                 closeCalls, faults, acked, pulled>>

\* Variant of ReceiverEmit: the index++ after the send is missing.
ReceiverEmitNoIncrement ==
  /\ rpc = "emitOk"
  /\ \/ /\ cancelled
        /\ rpc' = "done"
        /\ UNCHANGED outVars
     \/ /\ Emit(Result("ok", rIndex, rItem))
        /\ rpc' = "recv"
  /\ UNCHANGED <<moreVars, tagVars, callVars, cancelled, prodVars, consumed, outClosed, mpc, spc,
                 sIndex, rIndex, rItem, opens, sent, sentStreams, backVars,
                 closeCalls, faults, acked, pulled>>

\* select { case <-ctx.Done(): return
\*          case outStream <- Result{RecordRef: recordRef, Index: index}: }; index++
ReceiverEmit ==
  /\ rpc = "emitOk"
  /\ \/ /\ cancelled
        /\ rpc' = "done"
        /\ UNCHANGED <<outVars, rIndex>>
     \/ /\ Emit(Result("ok", rIndex, rItem))
        /\ rIndex' = rIndex + 1
        /\ rpc' = "recv"
  /\ UNCHANGED <<moreVars, tagVars, callVars, cancelled, prodVars, consumed, outClosed, mpc, spc,
                 sIndex, rItem, opens, sent, sentStreams, backVars,
                 closeCalls, faults, acked, pulled>>

\* Variant of ReceiverRecvErr: the return after the error result is missing,
\* the receiver goes on with the next Recv.
ReceiverRecvErrNoReturn ==
  /\ rpc = "emitErr"
  /\ \/ cancelled /\ UNCHANGED outVars /\ rpc' = "done"
     \/ Emit(Result("recv", rIndex, rItem)) /\ rpc' = "recv"
  /\ UNCHANGED <<moreVars, tagVars, callVars, cancelled, prodVars, consumed, outClosed, mpc, spc,
                 sIndex, rIndex, rItem, opens, sent, sentStreams, backVars,
                 closeCalls, faults, acked, pulled>>

\* select { case <-ctx.Done(): return
\*          case outStream <- Result{Error: "failed to receive ... index", Index: index}: }; return
ReceiverRecvErr ==
  /\ rpc = "emitErr"
  /\ \/ cancelled /\ UNCHANGED outVars
     \/ Emit(Result("recv", rIndex, rItem))
  /\ rpc' = "done"
  /\ UNCHANGED <<moreVars, tagVars, callVars, cancelled, prodVars, consumed, outClosed, mpc, spc,
                 sIndex, rIndex, rItem, opens, sent, sentStreams, backVars,
                 closeCalls, faults, acked, pulled>>

----------------------------------------------------------------------------
\* DeleteStream: the send loop runs in the outer goroutine, there is no receiver

\* for recordRef := range inStream
DeleteRange ==
  /\ op = "delete" /\ mpc = "range"
  /\ \/ /\ inBuf > 0
        /\ inBuf' = inBuf - 1
        /\ consumed' = consumed + 1
        /\ mpc' = "select"
     \/ /\ inBuf = 0 /\ inClosed
        /\ mpc' = "closeAndRecv"
        /\ UNCHANGED <<inBuf, consumed>>
  /\ UNCHANGED <<moreVars, tagVars, callVars, cancelled, fed, inClosed, outVars, outClosed, spc, rpc,
                 sIndex, rIndex, rItem, opens, sent, sentStreams, backVars,
                 closeCalls, faults, acked, pulled>>

\* select { case <-ctx.Done(): return; default: ... }
DeleteSelect ==
  /\ op = "delete" /\ mpc = "select"
  /\ mpc' = IF cancelled THEN "closing" ELSE "send"
  /\ UNCHANGED <<moreVars, tagVars, callVars, cancelled, prodVars, consumed, outVars, outClosed, spc, rpc,
                 sIndex, rIndex, rItem, opens, sent, sentStreams, backVars,
                 closeCalls, faults, acked, pulled>>

\* if err := stream.Send(recordRef); err != nil {...}
DeleteSend ==
  /\ op = "delete" /\ mpc = "send"
  /\ \/ /\ sent' = sent + 1
        /\ sentStreams' = sentStreams \cup {opens}
        /\ mpc' = "emitOk"
        /\ UNCHANGED faults
     \/ /\ faults' = faults \cup {"send"}
        /\ mpc' = "sendErr"
        /\ UNCHANGED <<sent, sentStreams>>
  /\ UNCHANGED <<moreVars, tagVars, callVars, cancelled, prodVars, consumed, outVars, outClosed, spc, rpc,
                 sIndex, rIndex, rItem, opens, backVars, closeCalls, acked, pulled>>

\* select { case <-ctx.Done(): return
\*          case outStream <- DeleteResult{Error: "failed to send record ref index", Index: index}: }; return
DeleteSendErr ==
  /\ op = "delete" /\ mpc = "sendErr"
  /\ \/ cancelled /\ UNCHANGED outVars
     \/ Emit(Result("send", sIndex, consumed - 1))
  /\ mpc' = "closing"
  /\ UNCHANGED <<moreVars, tagVars, callVars, cancelled, prodVars, consumed, outClosed, spc, rpc,
                 sIndex, rIndex, rItem, opens, sent, sentStreams, backVars,
                 closeCalls, faults, acked, pulled>>

\* Send successful - emit success result
\* select { case <-ctx.Done(): return; case outStream <- DeleteResult{Index: index}: }; index++
DeleteEmit ==
  /\ op = "delete" /\ mpc = "emitOk"
  /\ \/ /\ cancelled
        /\ mpc' = "closing"
        /\ UNCHANGED <<outVars, sIndex>>
     \/ /\ Emit(Result("ok", sIndex, consumed - 1))
        /\ sIndex' = sIndex + 1
        /\ mpc' = "range"
  /\ UNCHANGED <<moreVars, tagVars, callVars, cancelled, prodVars, consumed, outClosed, spc, rpc,
                 rIndex, rItem, opens, sent, sentStreams, backVars,
                 closeCalls, faults, acked, pulled>>

\* Variant of DeleteCloseAndRecv: the `err != io.EOF` test is missing, io.EOF
\* is reported as a close failure.
DeleteCloseAndRecvEOFIsError ==
  /\ op = "delete" /\ mpc = "closeAndRecv"
  /\ closeCalls' = closeCalls + 1
  /\ \/ /\ answered = sent /\ ~backendErr
        /\ \E err \in {"nil", "EOF"} :
             /\ acked' = (err = "nil")
             /\ mpc' = IF err = "EOF" THEN "closeErr" ELSE "closing"
        /\ UNCHANGED faults
     \/ /\ faults' = faults \cup {"close"}
        /\ mpc' = "closeErr"
        /\ UNCHANGED acked
  /\ UNCHANGED <<moreVars, tagVars, callVars, cancelled, prodVars, consumed, outVars, outClosed, spc, rpc,
                 sIndex, rIndex, rItem, opens, sent, sentStreams, backVars, pulled>>

\* _, err = stream.CloseAndRecv(); if err != nil && err != io.EOF {...}
\* The call returns the backend's acknowledgment (or io.EOF) once the backend
\* has processed every ref sent, the backend's error if a deletion failed,
\* and an error when the stream breaks or ctx is cancelled meanwhile.
DeleteCloseAndRecv ==
  /\ op = "delete" /\ mpc = "closeAndRecv"
  /\ closeCalls' = closeCalls + 1
  /\ \/ /\ answered = sent /\ ~backendErr
        /\ \E err \in {"nil", "EOF"} :
             /\ acked' = (err = "nil")
             /\ mpc' = "closing"
        /\ UNCHANGED faults
     \/ /\ faults' = faults \cup {"close"}
        /\ mpc' = "closeErr"
        /\ UNCHANGED acked
  /\ UNCHANGED <<moreVars, tagVars, callVars, cancelled, prodVars, consumed, outVars, outClosed, spc, rpc,
                 sIndex, rIndex, rItem, opens, sent, sentStreams, backVars, pulled>>

\* select { case <-ctx.Done(): return
\*          case outStream <- DeleteResult{Error: "failed to close delete stream"}: }; return
DeleteCloseErr ==
  /\ op = "delete" /\ mpc = "closeErr"
  /\ \/ cancelled /\ UNCHANGED outVars
     \/ Emit(Result("close", 0, NoItem))
  /\ mpc' = "closing"
  /\ UNCHANGED <<moreVars, tagVars, callVars, cancelled, prodVars, consumed, outClosed, spc, rpc,
                 sIndex, rIndex, rItem, opens, sent, sentStreams, backVars,
                 closeCalls, faults, acked, pulled>>

----------------------------------------------------------------------------
\* The backend behind storetypes.StoreServiceClient: order-preserving, at
\* most one response per request.

\* The backend processes the next request it received.  Bidi ops: it answers
\* with a response or rejects the request (Recv then returns the error).
\* Delete: it deletes the ref or fails to.
BackendAnswer ==
  /\ answered < sent /\ ~ended
  /\ \E a \in {"ok", "err"} :
       /\ answers' = Append(answers, a)
       /\ IF op = "delete"
            THEN UNCHANGED <<respQ, faults>>
            ELSE /\ respQ' = Append(respQ, [r |-> a, req |-> answered])
                 /\ faults' = IF a = "err" THEN faults \cup {"recv"} ELSE faults
  /\ UNCHANGED <<moreVars, tagVars, callVars, cancelled, prodVars, consumed, outVars, outClosed, mpc, spc, rpc,
                 sIndex, rIndex, rItem, opens, sent, sentStreams, ended,
                 closeCalls, acked, pulled>>

\* After the send half was closed and every request is answered, the backend
\* ends the response stream: Recv returns io.EOF.
BackendEnd ==
  /\ op \in BidiOps /\ closeCalls > 0 /\ answered = sent /\ ~ended
  /\ ended' = TRUE
  /\ respQ' = Append(respQ, [r |-> "EOF", req |-> NoItem])
  /\ UNCHANGED <<moreVars, tagVars, callVars, cancelled, prodVars, consumed, outVars, outClosed, mpc, spc, rpc,
                 sIndex, rIndex, rItem, opens, sent, sentStreams, answers,
                 closeCalls, faults, acked, pulled>>

----------------------------------------------------------------------------
\* Client.Pull(ref) called after Client.Delete(ref) has returned: the backend
\* answers from what it holds at that moment.
ClientPull ==
  /\ op = "delete" /\ wrapper /\ ret # "none" /\ pulled = "none"
  /\ pulled' = IF 0 \in deleted THEN "NotFound" ELSE "record"
  /\ UNCHANGED <<moreVars, tagVars, callVars, cancelled, prodVars, consumed, outVars, outClosed, mpc, spc, rpc,
                 sIndex, rIndex, rItem, opens, sent, sentStreams, backVars,
                 closeCalls, faults, acked>>

----------------------------------------------------------------------------
Caller  == Produce \/ CloseIn \/ Cancel \/ ClientPull
Outer   == CreateStream \/ CreateErr \/ Wait \/ CloseOut
Sender  == SenderRange \/ SenderSelect \/ SenderSend \/ SenderSendErr
             \/ SenderCloseSend \/ SenderCloseErr
Receiver == ReceiverRecv \/ ReceiverEmit \/ ReceiverRecvErr
Delete  == DeleteRange \/ DeleteSelect \/ DeleteSend \/ DeleteSendErr
             \/ DeleteEmit \/ DeleteCloseAndRecv \/ DeleteCloseErr
Backend == BackendAnswer \/ BackendEnd

Next == Caller \/ Outer \/ Sender \/ Receiver \/ Delete \/ Backend

Spec == Init /\ [][Next]_vars

\* The Go scheduler runs every goroutine that can take a step, and the
\* backend makes progress; the caller owes nothing (it may stop producing,
\* never close inStream and never cancel).
FairSpec ==
  /\ Spec
  /\ WF_vars(Outer) /\ WF_vars(Sender) /\ WF_vars(Receiver) /\ WF_vars(Delete)
  /\ WF_vars(Backend)

TypeOK ==
  /\ op \in Ops /\ wrapper \in BOOLEAN /\ cancelled \in BOOLEAN
  /\ fed \in 0..MaxItems /\ inBuf \in 0..InCap /\ consumed \in 0..fed
  /\ mpc \in {"create", "createErr", "wait", "range", "select", "send", "sendErr",
              "emitOk", "closeAndRecv", "closeErr", "closing", "done"}
  /\ spc \in {"idle", "range", "select", "send", "sendErr", "closeSend", "closeErr", "done"}
  /\ rpc \in {"idle", "recv", "emitOk", "emitErr", "done"}
  /\ ret \in {"none", "ok", "err", "empty"}
  /\ pulled \in {"none", "record", "NotFound"}
  /\ npc \in {"off", "in", "out", "again"}
  /\ gpc \in {"off", "in", "out", "all"}
  /\ ppc \in {"off", "idle", "tagging"}
  /\ pushResult \in {"none", "ok", "Internal"}
  /\ tagErrors \in 0..nTags /\ attempts \in 0..nTags

----------------------------------------------------------------------------
\* Properties of the streaming core

\* Every task the call started has finished and outStream is closed
Terminated ==
  /\ outClosed /\ mpc = "done"
  /\ spc \in {"idle", "done"} /\ rpc \in {"idle", "done"}

OkResults  == {k \in 1..Len(out) : out[k].kind = "ok"}
ErrResults == {k \in 1..Len(out) : out[k].kind # "ok"}

\* C1: once ctx is cancelled, outStream is eventually closed and every task
\* of the call has terminated, for a caller that keeps draining outStream,
\* even if the producer neither sends another item nor closes inStream.
CancelTerminates == (cancelled /\ ~wrapper) ~> Terminated

\* C2: after ctx has been cancelled no further result is delivered on
\* outStream (only its close can still happen).
NoResultAfterCancel == [][cancelled => out' = out]_vars

\* C3: after Client.Delete(ref) returned nil, the backend has processed the
\* deletion of ref and a subsequent Client.Pull(ref) fails with NotFound.
DeleteThenPullNotFound ==
  (op = "delete" /\ wrapper /\ ret = "ok") =>
     /\ 0 \in deleted
     /\ pulled \in {"none", "NotFound"}

\* C4: in a bidi op a rejected request is one error result for that item and
\* does not abort the stream: when outStream closes, every answer the backend
\* has given (a response or a rejection) has its own result on outStream.
PerItemErrorKeepsStream ==
  [][(/\ op \in BidiOps /\ ~wrapper /\ ~cancelled /\ faults \subseteq {"recv"}
      /\ ~outClosed /\ outClosed')
     => \A i \in 1..Len(answers) :
          \E k \in 1..Len(out) :
             /\ out[k].item = i - 1
             /\ out[k].kind = (IF answers[i] = "ok" THEN "ok" ELSE "recv")]_vars

\* C5: if inStream is closed, ctx is never cancelled, the caller keeps
\* draining and the backend answers every request and then ends its response
\* stream, then outStream is eventually closed and all tasks have terminated.
InputClosedTerminates == (inClosed /\ ~wrapper) ~> (Terminated \/ cancelled)

InputClosedTerminatesWitness ==
  /\ Terminated /\ ~cancelled /\ ~wrapper /\ inClosed
  /\ consumed = MaxItems /\ faults = {}

\* C6: with a backend that never fails and a ctx that is never cancelled,
\* feeding N items and closing inStream yields exactly N results, all
\* successful, with indices exactly 0..N-1, and then outStream closes.
ExactlyNResults ==
  (outClosed /\ ~wrapper /\ ~cancelled /\ faults = {}) =>
     /\ inClosed
     /\ Len(out) = fed
     /\ ErrResults = {}
     /\ {out[k].Index : k \in 1..Len(out)} = 0..(fed - 1)

ExactlyNResultsWitness ==
  /\ outClosed /\ ~wrapper /\ ~cancelled /\ faults = {}
  /\ fed = MaxItems /\ Len(out) = MaxItems

\* C7 (as claimed): the number of results emitted is at most the number of
\* items consumed from inStream.
ResultsAtMostConsumed == Len(out) <= consumed

\* C7 (amended): the number of successful results is at most the number of
\* items consumed; error results come on top, at most two more results than
\* items consumed in total.
SuccessesAtMostConsumed ==
  /\ Cardinality(OkResults) <= consumed
  /\ Len(out) <= consumed + 2

SuccessesAtMostConsumedWitness ==
  /\ outClosed /\ consumed = MaxItems /\ Len(out) = consumed + 2

\* C8: every error result carries the index of the input item it belongs to.
ErrorIndexIdentifiesItem ==
  \A k \in ErrResults : out[k].item # NoItem /\ out[k].Index = out[k].item

\* C9: the backend stream is opened exactly once, before any item is
\* consumed, and every forwarded item is sent on that stream.
SingleBackendStream ==
  /\ opens <= 1
  /\ (mpc # "create") => opens = 1
  /\ (consumed > 0) => opens = 1
  /\ sentStreams \subseteq {1}

SingleBackendStreamWitness == opens = 1 /\ sent = MaxItems /\ sentStreams = {1}

\* C10 (as claimed): PushStream on a closed empty inStream with a live ctx and
\* a backend that accepted the stream emits no result and sends nothing.
EmptyInputNoResults ==
  (/\ op = "push" /\ ~wrapper /\ fed = 0 /\ inClosed
   /\ ~cancelled /\ mpc # "create" /\ "create" \notin faults)
  => out = <<>> /\ sent = 0

\* C10 (amended): the same, for a backend that also closes the send half
\* without error and ends the response stream without error.
EmptyInputNoResultsHealthy ==
  (/\ op = "push" /\ ~wrapper /\ fed = 0 /\ inClosed
   /\ ~cancelled /\ mpc # "create" /\ faults = {})
  => out = <<>> /\ sent = 0 /\ closeCalls <= 1

EmptyInputNoResultsWitness ==
  /\ op = "push" /\ ~wrapper /\ fed = 0 /\ inClosed /\ ~cancelled /\ faults = {}
  /\ outClosed /\ out = <<>> /\ closeCalls = 1

\* The results the receiver goroutine emitted, in emission order
RECURSIVE ReceiverResults(_)
ReceiverResults(o) ==
  IF o = <<>> THEN <<>>
  ELSE IF Head(o).kind \in {"ok", "recv"}
         THEN <<Head(o)>> \o ReceiverResults(Tail(o))
         ELSE ReceiverResults(Tail(o))

\* C11: in a bidi op the k-th result of the receiver (0-based, success or
\* receive error) carries Index k, so the indices never decrease, and a
\* receive error is the last thing the receiver emits.
ReceiverIndexMonotone ==
  op \in BidiOps =>
    LET rr == ReceiverResults(out) IN
      \A k \in 1..Len(rr) :
         /\ rr[k].Index = k - 1
         /\ (rr[k].kind = "recv") => k = Len(rr)

ReceiverIndexMonotoneWitness ==
  /\ op \in BidiOps /\ rpc = "done"
  /\ Len(ReceiverResults(out)) = MaxItems
  /\ ReceiverResults(out)[MaxItems].kind = "recv"
  /\ ReceiverResults(out)[1].kind = "ok"

\* What C12 says of DeleteStream: no receiver runs; the k-th success carries
\* Index k and follows the forwarding of item k; the send half is closed once,
\* after inStream closed; when outStream closes after the acknowledgment was
\* awaited there is no error result if it succeeded or was io.EOF and exactly
\* one (the close error, last on outStream) otherwise.
DeleteProtocol ==
  /\ spc = "idle" /\ rpc = "idle"
  /\ \A k \in OkResults : out[k].Index = k - 1 /\ out[k].item = k - 1
  /\ Cardinality(OkResults) = (IF mpc = "emitOk" THEN sent - 1 ELSE sent)
  /\ closeCalls <= 1
  /\ (closeCalls = 1) => (inClosed /\ inBuf = 0 /\ consumed = fed)
  /\ (outClosed /\ "send" \notin faults /\ "create" \notin faults) =>
        /\ closeCalls = 1
        /\ Cardinality(ErrResults) = (IF "close" \in faults THEN 1 ELSE 0)
        /\ \A k \in ErrResults : out[k].kind = "close" /\ k = Len(out)

\* C12 (as claimed): DeleteStream follows this protocol in every run.
DeleteStreamProtocol == (op = "delete" /\ ~wrapper) => DeleteProtocol

\* C12 (amended): DeleteStream follows this protocol in every run whose ctx
\* is not cancelled.
DeleteStreamProtocolLive ==
  (op = "delete" /\ ~wrapper /\ ~cancelled) => DeleteProtocol

DeleteStreamProtocolWitness ==
  /\ op = "delete" /\ ~wrapper /\ ~cancelled /\ outClosed
  /\ Cardinality(OkResults) = MaxItems /\ "close" \in faults
  /\ Len(out) = MaxItems + 1


----------------------------------------------------------------------------
\* server/store/oci/tags.go: discovery tags.
\* A string is a sequence of characters; "!" stands for every rune the
\* switch of normalizeTagForOCI sends to its default branch.

MaxTagLen == 3     \* longest short argument of normalizeTagForOCI
MaxTail   == 2     \* characters after the padding of a long argument
TagMaxLen == 128   \* len(tag) > 128

Letters  == <<"a", "b", "c", "d", "e", "f", "g", "h", "i", "j", "k", "l", "m",
              "n", "o", "p", "q", "r", "s", "t", "u", "v", "w", "x", "y", "z">>
Capitals == <<"A", "B", "C", "D", "E", "F", "G", "H", "I", "J", "K", "L", "M",
              "N", "O", "P", "Q", "R", "S", "T", "U", "V", "W", "X", "Y", "Z">>
Lower     == {Letters[k] : k \in 1..26}
Upper     == {Capitals[k] : k \in 1..26}
Digit     == {"0", "1", "2", "3", "4", "5", "6", "7", "8", "9"}
Separator == {"_", ".", "-"}
\* one character of every case of the switch, with and without ToLower acting
Alphabet  == {"a", "A", "0", "_", ".", "-", " ", "/", "\\", "!"}

SeqsUpTo(S, n) == UNION {[1..k -> S] : k \in 0..n}
Pad(n) == [i \in 1..n |-> "a"]

\* strings.ToLower
ToLowerRune(c) == IF c \in Upper THEN Letters[CHOOSE k \in 1..26 : Capitals[k] = c] ELSE c
ToLower(str) == [i \in 1..Len(str) |-> ToLowerRune(str[i])]

\* strings.TrimRight(str, cutset)
TrimRight(str, cutset) ==
  LET keep == {k \in 0..Len(str) : k = 0 \/ str[k] \notin cutset}
      n    == CHOOSE k \in keep : \A j \in keep : j <= k
  IN SubSeq(str, 1, n)

\* the switch of the loop; i is the index of char in the lowercased string
ReplaceChar(char, i) ==
  CASE char \in Lower \cup Digit -> char
    [] char \in Separator        -> IF i = 0 THEN "_" ELSE char
    [] char = " "                -> "-"
    [] char \in {"/", "\\"}      -> "."
    [] OTHER                     -> "_"

\* the switch without its i == 0 case
ReplaceCharAnywhere(char, i) ==
  CASE char \in Lower \cup Digit -> char
    [] char \in Separator        -> char
    [] char = " "                -> "-"
    [] char \in {"/", "\\"}      -> "."
    [] OTHER                     -> "_"

\* normalizeTagForOCI trimming before it limits the length
normalizeTrimThenLimit(tag) ==
  IF tag = <<>> THEN <<>>
  ELSE LET normalized == ToLower(tag)
           result  == [i \in 1..Len(normalized) |-> ReplaceChar(normalized[i], i - 1)]
           first   == IF result[1] \notin Lower \cup Digit /\ result[1] # "_"
                      THEN <<"_">> \o result ELSE result
           trimmed == TrimRight(first, Separator)
       IN IF Len(trimmed) > TagMaxLen THEN SubSeq(trimmed, 1, TagMaxLen) ELSE trimmed

\* normalizeTagForOCI without the check of the first character
normalizeNoFirstCheck(tag) ==
  IF tag = <<>> THEN <<>>
  ELSE LET normalized == ToLower(tag)
           result  == [i \in 1..Len(normalized) |-> ReplaceChar(normalized[i], i - 1)]
           limited == IF Len(result) > TagMaxLen THEN SubSeq(result, 1, TagMaxLen) ELSE result
       IN TrimRight(limited, Separator)

\* normalizeTagForOCI treating the first character as every other one
normalizeFirstAsRest(tag) ==
  IF tag = <<>> THEN <<>>
  ELSE LET normalized == ToLower(tag)
           result  == [i \in 1..Len(normalized) |-> ReplaceCharAnywhere(normalized[i], i - 1)]
           first   == IF result[1] \notin Lower \cup Digit /\ result[1] # "_"
                      THEN <<"_">> \o result ELSE result
           limited == IF Len(first) > TagMaxLen THEN SubSeq(first, 1, TagMaxLen) ELSE first
       IN TrimRight(limited, Separator)

normalizeTagForOCI(tag) ==
  IF tag = <<>> THEN <<>>
  ELSE LET normalized == ToLower(tag)
           result  == [i \in 1..Len(normalized) |-> ReplaceChar(normalized[i], i - 1)]
           first   == IF Len(result) > 0 /\ result[1] \notin Lower \cup Digit /\ result[1] # "_"
                      THEN <<"_">> \o result ELSE result
           limited == IF Len(first) > TagMaxLen THEN SubSeq(first, 1, TagMaxLen) ELSE first
       IN TrimRight(limited, Separator)

\* Arguments: every string of at most MaxTagLen characters, and strings
\* around the length limit (a first character, padding, a tail)
ShortArgs == SeqsUpTo(Alphabet, MaxTagLen)
LongArgs  == {h \o Pad(n) \o t : h \in SeqsUpTo(Alphabet, 1),
                                 n \in {TagMaxLen - 2, TagMaxLen - 1},
                                 t \in SeqsUpTo(Alphabet, MaxTail)}
NormArgs  == ShortArgs \cup LongArgs

\* A stream call that was constructed and never scheduled
StreamIdle == StreamInit /\ op = "push" /\ ~wrapper

NormInit ==
  /\ StreamIdle
  /\ MoreOff
  /\ GenOff
  /\ RegOff
  /\ npc = "in"
  /\ tagIn \in NormArgs
  /\ tagOut = <<>>
  /\ tagAgain = <<>>

Normalize ==
  /\ npc = "in"
  /\ tagOut' = normalizeTagForOCI(tagIn)
  /\ npc' = "out"
  /\ UNCHANGED <<moreVars, streamVars, genVars, regVars, tagIn, tagAgain>>

NormalizeAgain ==
  /\ npc = "out"
  /\ tagAgain' = normalizeTagForOCI(tagOut)
  /\ npc' = "again"
  /\ UNCHANGED <<moreVars, streamVars, genVars, regVars, tagIn, tagOut>>

NormNext == Normalize \/ NormalizeAgain

NormSpec == NormInit /\ [][NormNext]_vars

\* C16: the result of normalizeTagForOCI is empty, or has at most 128
\* characters, all in [a-z0-9._-], the first in [a-z0-9_]
NormalizedTagWellFormed ==
  npc \in {"out", "again"} =>
    \/ tagOut = <<>>
    \/ /\ Len(tagOut) <= 128
       /\ tagOut[1] \in Lower \cup Digit \cup {"_"}
       /\ \A i \in 1..Len(tagOut) : tagOut[i] \in Lower \cup Digit \cup {".", "_", "-"}

NormalizedTagWellFormedWitness ==
  /\ npc = "out"
  /\ Len(tagIn) > 128
  /\ tagIn[1] = "/"
  /\ Len(tagOut) = 128
  /\ tagOut[2] = "."

\* C17: normalizing a normalized tag changes nothing
NormalizeIdempotent ==
  npc = "again" => tagAgain = tagOut

NormalizeIdempotentWitness ==
  /\ npc = "again"
  /\ Len(tagIn) > 128
  /\ tagIn[1] \in Separator
  /\ Len(tagOut) < 128
  /\ tagOut # <<>>
  /\ tagAgain = tagOut


\* The rule as stated: every character is replaced on its own ('/' by '.',
\* space by '-', everything else outside [a-z0-9._-] by '_'), and a leading
\* character outside [a-z0-9_] is kept behind a prefixed '_'
StatedReplace(c) ==
  IF c \in Lower \cup Digit \cup Separator THEN c
  ELSE IF c = "/" THEN "."
  ELSE IF c = " " THEN "-"
  ELSE "_"

StatedRule(str) ==
  LET lowered  == ToLower(str)
      replaced == [i \in 1..Len(lowered) |-> StatedReplace(lowered[i])]
      prefixed == IF replaced # <<>> /\ replaced[1] \notin Lower \cup Digit \cup {"_"}
                  THEN <<"_">> \o replaced ELSE replaced
  IN TrimRight(SubSeq(prefixed, 1, IF Len(prefixed) > 128 THEN 128 ELSE Len(prefixed)),
               Separator)

\* The rule with a backslash replaced by '.', and a leading '.', '-' or '_'
\* replaced by '_' instead of kept: what the first character turns into,
\* and what every later character turns into
LeadingChars(c) ==
  IF c \in Lower \cup Digit THEN <<c>>
  ELSE IF c \in Upper THEN <<ToLowerRune(c)>>
  ELSE IF c = " " THEN <<"_", "-">>
  ELSE IF c \in {"/", "\\"} THEN <<"_", ".">>
  ELSE <<"_">>

LaterChar(c) ==
  IF c \in Lower \cup Digit \cup Separator THEN c
  ELSE IF c \in Upper THEN ToLowerRune(c)
  ELSE IF c = " " THEN "-"
  ELSE IF c \in {"/", "\\"} THEN "."
  ELSE "_"

AmendedRule(str) ==
  IF str = <<>> THEN <<>>
  ELSE LET whole == LeadingChars(str[1]) \o [i \in 1..(Len(str) - 1) |-> LaterChar(str[i + 1])]
           n     == IF Len(whole) > 128 THEN 128 ELSE Len(whole)
       IN TrimRight(SubSeq(whole, 1, n), Separator)

\* C18 (as claimed): normalizeTagForOCI computes the stated rule, a backslash
\* becoming '_' and ".abc" becoming "_.abc"
NormalizeFollowsStatedRule ==
  npc \in {"out", "again"} => tagOut = StatedRule(tagIn)

\* C18 (amended): normalizeTagForOCI computes the rule in which a backslash
\* becomes '.' and a leading '.', '-' or '_' becomes '_' with no prefix
\* (".abc" becoming "_abc"); only a leading '/', backslash or space is kept,
\* replaced, behind a prefixed '_'
NormalizeFollowsAmendedRule ==
  npc \in {"out", "again"} => tagOut = AmendedRule(tagIn)

NormalizeFollowsAmendedRuleWitness ==
  /\ npc = "out"
  /\ tagIn = <<".", "\\", "a">>
  /\ tagOut = <<"_", ".", "a">>


----------------------------------------------------------------------------
\* generateTagsFromMetadata

MaxList   == 2     \* values in a comma-separated metadata entry
MaxBudget == 2     \* largest small MaxTagsPerRecord

\* parseCommaSeparated(value): the values between the commas, in order
RECURSIVE parseCommaSeparated(_)
parseCommaSeparated(value) ==
  IF \A k \in 1..Len(value) : value[k] # ","
  THEN <<value>>
  ELSE LET k == CHOOSE i \in 1..Len(value) :
                  value[i] = "," /\ \A j \in 1..(i - 1) : value[j] # ","
       IN <<SubSeq(value, 1, k - 1)>> \o parseCommaSeparated(SubSeq(value, k + 1, Len(value)))

NotEmpty(str) == str # <<>>

\* for _, v := range list { if v != "" { if tag := normalize(prefix + v); tag != "" { append } } }
RECURSIVE PrefixedTags(_, _)
PrefixedTags(prefix, list) ==
  IF list = <<>> THEN <<>>
  ELSE LET tag == IF Head(list) # <<>> THEN normalizeTagForOCI(prefix \o Head(list)) ELSE <<>>
       IN (IF tag # <<>> THEN <<tag>> ELSE <<>>) \o PrefixedTags(prefix, Tail(list))

\* the loop of removeDuplicateTags from position i on
RECURSIVE DedupLoop(_, _, _, _)
DedupLoop(list, i, seen, result) ==
  IF i > Len(list) THEN result
  ELSE IF list[i] # <<>> /\ list[i] \notin seen
       THEN DedupLoop(list, i + 1, seen \cup {list[i]}, Append(result, list[i]))
       ELSE DedupLoop(list, i + 1, seen, result)

\* the loop running from the last tag to the first
RECURSIVE DedupLoopBackwards(_, _, _, _)
DedupLoopBackwards(list, i, seen, result) ==
  IF i < 1 THEN result
  ELSE IF list[i] # <<>> /\ list[i] \notin seen
       THEN DedupLoopBackwards(list, i - 1, seen \cup {list[i]}, <<list[i]>> \o result)
       ELSE DedupLoopBackwards(list, i - 1, seen, result)

\* removeDuplicateTags keeping the last of equal tags
removeDuplicateTagsKeepLast(list) == DedupLoopBackwards(list, Len(list), {}, <<>>)

removeDuplicateTags(list) == DedupLoop(list, 1, {}, <<>>)

\* lines 103-201: the tags appended before deduplication
appendedTags(md, c, st) ==
  LET cidTags  == IF st.EnableContentAddressable /\ c # <<>>
                  THEN <<normalizeTagForOCI(c)>> ELSE <<>>
      nameTags == IF st.EnableNameTags /\ md.name # <<>>
                  THEN SelectSeq(
                         <<normalizeTagForOCI(md.name)>>
                         \o (IF md.version # <<>>
                             THEN <<normalizeTagForOCI(md.name \o <<":">> \o md.version)>>
                             ELSE <<>>)
                         \o <<normalizeTagForOCI(md.name \o <<":", "l", "a", "t", "e", "s", "t">>)>>,
                         NotEmpty)
                  ELSE <<>>
      capTags  == IF st.EnableCapabilityTags
                  THEN (IF md.skills # <<>>
                        THEN PrefixedTags(<<"s", "k", "i", "l", "l", ".">>, parseCommaSeparated(md.skills))
                        ELSE <<>>)
                       \o (IF md.extensions # <<>>
                           THEN PrefixedTags(<<"e", "x", "t", ".">>, parseCommaSeparated(md.extensions))
                           ELSE <<>>)
                  ELSE <<>>
      infraTags == IF st.EnableInfrastructureTags /\ md.locators # <<>>
                   THEN PrefixedTags(<<"d", "e", "p", "l", "o", "y", ".">>, parseCommaSeparated(md.locators))
                   ELSE <<>>
      teamTags == IF st.EnableTeamTags
                  THEN PrefixedTags(<<"t", "e", "a", "m", ".">>, <<md.team>>)
                       \o PrefixedTags(<<"o", "r", "g", ".">>, <<md.organization>>)
                       \o PrefixedTags(<<"p", "r", "o", "j", "e", "c", "t", ".">>, <<md.project>>)
                  ELSE <<>>
  IN cidTags \o nameTags \o capTags \o infraTags \o teamTags

\* lines 204-208 applied to a list
LimitTags(list, st) ==
  IF st.MaxTagsPerRecord > 0 /\ Len(list) > st.MaxTagsPerRecord
  THEN SubSeq(list, 1, st.MaxTagsPerRecord) ELSE list

\* generateTagsFromMetadata limiting the list before it removes duplicates
generateLimitThenDedup(md, c, st) ==
  removeDuplicateTags(LimitTags(appendedTags(md, c, st), st))

generateTagsFromMetadata(md, c, st) ==
  LimitTags(removeDuplicateTags(appendedTags(md, c, st)), st)


\* Arguments.  Metadata entries are what extractMetadataFromRecord stores:
\* names joined by commas for skills, extensions and locators.
RECURSIVE Join(_)
Join(list) ==
  IF list = <<>> THEN <<>>
  ELSE IF Len(list) = 1 THEN Head(list)
  ELSE Head(list) \o <<",">> \o Join(Tail(list))

ListValues == {<<>>, <<"a">>, <<"A">>, <<"b">>}
CommaLists == {Join(l) : l \in SeqsUpTo(ListValues, MaxList)}

Names    == {<<>>, <<"a">>, <<"_">>, <<"s", "k", "i", "l", "l", ".", "a">>}
Versions == {<<>>, <<"1">>, <<"l", "a", "t", "e", "s", "t">>}
\* no cid, a CIDv1 (base32, lower case), a CIDv0 (base58, mixed case), a
\* string equal to the record's name, a string that is no tag at all
Cids     == {<<>>, <<"b", "a", "f", "y">>, <<"Q", "m", "Y", "w">>, <<"a">>, <<"_">>}

\* name, version, skills and cid vary, the other entries are set
NamedMetadata ==
  {[name |-> n, version |-> v, skills |-> sk, extensions |-> <<"a", ",", "A">>,
    locators |-> <<"a">>, team |-> <<"a">>, organization |-> <<>>, project |-> <<"a">>] :
     n \in Names, v \in Versions, sk \in CommaLists}

\* the other entries vary
OtherMetadata ==
  {[name |-> n, version |-> <<>>, skills |-> <<>>, extensions |-> e,
    locators |-> l, team |-> t, organization |-> o, project |-> p] :
     n \in {<<>>, <<"a">>},
     e \in {<<>>, <<"a">>, <<"b", ",", ",", "a">>},
     l \in {<<>>, <<"a">>, <<"a", ",", "a">>},
     t \in {<<>>, <<"a">>}, o \in {<<>>, <<"A">>}, p \in {<<>>, <<"_">>}}

Budgets == (0..MaxBudget) \cup {DefaultMaxTags}
Flags   == {"EnableNameTags", "EnableCapabilityTags", "EnableInfrastructureTags",
            "EnableTeamTags", "EnableContentAddressable"}

\* DefaultTagStrategy with every limit, and with one kind of tag switched
\* off under a small and under the default limit
Strategies ==
  {[DefaultTagStrategy EXCEPT !.MaxTagsPerRecord = m] : m \in Budgets}
  \cup {[DefaultTagStrategy EXCEPT ![f] = FALSE, !.MaxTagsPerRecord = m] :
          f \in Flags, m \in {MaxBudget, DefaultMaxTags}}

GenInit ==
  /\ StreamIdle
  /\ MoreOff
  /\ NormOff
  /\ RegOff
  /\ gpc = "in"
  /\ metadata \in NamedMetadata \cup OtherMetadata
  /\ cid \in Cids
  /\ strategy \in Strategies
  /\ tags = <<>>
  /\ allTags = <<>>

Generate ==
  /\ gpc = "in"
  /\ tags' = generateTagsFromMetadata(metadata, cid, strategy)
  /\ gpc' = "out"
  /\ UNCHANGED <<moreVars, streamVars, normVars, regVars, metadata, cid, strategy, allTags>>

GenerateUnlimited ==
  /\ gpc = "out"
  /\ allTags' = generateTagsFromMetadata(metadata, cid, [strategy EXCEPT !.MaxTagsPerRecord = 0])
  /\ gpc' = "all"
  /\ UNCHANGED <<moreVars, streamVars, normVars, regVars, metadata, cid, strategy, tags>>

GenNext == Generate \/ GenerateUnlimited

GenSpec == GenInit /\ [][GenNext]_vars

Range(seq) == {seq[i] : i \in 1..Len(seq)}

\* C14: with EnableContentAddressable, a non-empty cid and a limit of at
\* least one tag, the first tag returned is the cid string itself
CidIsFirstTag ==
  (/\ gpc \in {"out", "all"}
   /\ strategy.EnableContentAddressable
   /\ cid # <<>>
   /\ strategy.MaxTagsPerRecord >= 1)
  => (tags # <<>> /\ tags[1] = cid)

\* The candidates in the documented order (CID, name, name:version,
\* name:latest, skills, extensions, locators, team, org, project), each
\* normalized, for the kinds of tag the strategy enables
Values(entry) == SelectSeq(parseCommaSeparated(entry), NotEmpty)
Prefixed(prefix, list) == [i \in 1..Len(list) |-> prefix \o list[i]]
Candidates ==
  LET raw ==
        (IF strategy.EnableContentAddressable /\ cid # <<>> THEN <<cid>> ELSE <<>>)
        \o (IF strategy.EnableNameTags /\ metadata.name # <<>>
            THEN <<metadata.name>>
                 \o (IF metadata.version # <<>>
                     THEN <<metadata.name \o <<":">> \o metadata.version>> ELSE <<>>)
                 \o <<metadata.name \o <<":", "l", "a", "t", "e", "s", "t">>>>
            ELSE <<>>)
        \o (IF strategy.EnableCapabilityTags
            THEN Prefixed(<<"s", "k", "i", "l", "l", ".">>, Values(metadata.skills))
                 \o Prefixed(<<"e", "x", "t", ".">>, Values(metadata.extensions))
            ELSE <<>>)
        \o (IF strategy.EnableInfrastructureTags
            THEN Prefixed(<<"d", "e", "p", "l", "o", "y", ".">>, Values(metadata.locators))
            ELSE <<>>)
        \o (IF strategy.EnableTeamTags
            THEN Prefixed(<<"t", "e", "a", "m", ".">>, Values(metadata.team))
                 \o Prefixed(<<"o", "r", "g", ".">>, Values(metadata.organization))
                 \o Prefixed(<<"p", "r", "o", "j", "e", "c", "t", ".">>, Values(metadata.project))
            ELSE <<>>)
  IN [i \in 1..Len(raw) |-> normalizeTagForOCI(raw[i])]

FirstAt(list, t) == CHOOSE i \in 1..Len(list) : list[i] = t /\ \A j \in 1..(i - 1) : list[j] # t

\* C19: the tags returned are candidates, none empty, in the order of the
\* candidates' first occurrences (so none twice), and a non-empty candidate
\* is missing only behind the last tag of a list cut at MaxTagsPerRecord
GeneratedInCandidateOrder ==
  gpc = "out" =>
    LET cands == Candidates
        found == Range(cands)
    IN /\ \A i \in 1..Len(tags) : tags[i] # <<>> /\ tags[i] \in found
       /\ \A i \in 1..(Len(tags) - 1) :
            FirstAt(cands, tags[i]) < FirstAt(cands, tags[i + 1])
       /\ \A t \in found \ (Range(tags) \cup {<<>>}) :
            /\ strategy.MaxTagsPerRecord > 0
            /\ Len(tags) = strategy.MaxTagsPerRecord
            /\ FirstAt(cands, t) > FirstAt(cands, tags[Len(tags)])

GeneratedInCandidateOrderWitness ==
  /\ gpc = "out"
  /\ strategy = DefaultTagStrategy
  /\ cid = <<"_">>
  /\ metadata.name = <<"s", "k", "i", "l", "l", ".", "a">>
  /\ metadata.skills = <<"b", ",", "A">>
  /\ tags = << <<"s", "k", "i", "l", "l", ".", "a">>,
               <<"s", "k", "i", "l", "l", ".", "a", "_", "l", "a", "t", "e", "s", "t">>,
               <<"s", "k", "i", "l", "l", ".", "b">>,
               <<"e", "x", "t", ".", "a">>,
               <<"d", "e", "p", "l", "o", "y", ".", "a">>,
               <<"t", "e", "a", "m", ".", "a">>,
               <<"p", "r", "o", "j", "e", "c", "t", ".", "a">> >>

\* C20: with MaxTagsPerRecord = M > 0 at most M tags are returned, and they
\* are the first M of the deduplicated list (all of it when it has at most
\* M), the deduplicated list holding every non-empty candidate once
LimitAfterDedup ==
  (gpc = "all" /\ strategy.MaxTagsPerRecord > 0) =>
    LET M == strategy.MaxTagsPerRecord
        n == IF Len(allTags) > M THEN M ELSE Len(allTags)
    IN /\ Len(tags) <= M
       /\ tags = SubSeq(allTags, 1, n)
       /\ Range(allTags) = Range(Candidates) \ {<<>>}
       /\ \A i, j \in 1..Len(allTags) : allTags[i] = allTags[j] => i = j

LimitAfterDedupWitness ==
  /\ gpc = "all"
  /\ strategy.MaxTagsPerRecord = 2
  /\ cid = <<"a">>
  /\ metadata.name = <<"a">>
  /\ Len(allTags) > 2
  /\ tags = << <<"a">>, <<"a", "_", "l", "a", "t", "e", "s", "t">> >>


----------------------------------------------------------------------------
\* The repository and pushManifestWithTags

MaxPushes == 2     \* calls of Push

Record(c, n, sk, tm) ==
  [cid |-> c, metadata |-> [NoMetadata EXCEPT !.name = n, !.skills = sk, !.team = tm]]

\* two records of one name, two of one skill
Records ==
  {Record(<<"b", "a", "f", "y", "a">>, <<"a">>, <<"a">>, <<>>),
   Record(<<"b", "a", "f", "y", "b">>, <<"a">>, <<"b">>, <<>>),
   Record(<<"b", "a", "f", "y", "c">>, <<"b">>, <<"a">>, <<"a">>)}

\* getDigestFromCID: the digest of the multihash inside the CID
getDigestFromCID(c) == <<"sha256:">> \o c

\* generateDiscoveryTags, the metadata already extracted
generateDiscoveryTags(record, st) == generateTagsFromMetadata(record.metadata, record.cid, st)

\* for _, tag := range tags { if tag == "" { continue } ...
RECURSIVE SkipEmpty(_)
SkipEmpty(list) ==
  IF list # <<>> /\ Head(list) = <<>> THEN SkipEmpty(Tail(list)) ELSE list

RegInit ==
  /\ StreamIdle
  /\ MoreOff
  /\ NormOff
  /\ GenOff
  /\ ppc = "idle"
  /\ RegEmpty

\* Push(record): the manifest is uploaded, then pushManifestWithTags is
\* called with the record's discovery tags
PushManifest ==
  /\ ppc = "idle" /\ pushes < MaxPushes
  /\ \E record \in Records :
       /\ pushing' = record
       /\ manifests' = manifests \cup {getDigestFromCID(record.cid)}
       /\ todo' = generateDiscoveryTags(record, DefaultTagStrategy)
       /\ nTags' = Len(generateDiscoveryTags(record, DefaultTagStrategy))
  /\ tagErrors' = 0
  /\ attempts' = 0
  /\ pushResult' = "none"
  /\ ppc' = "tagging"
  /\ UNCHANGED <<moreVars, streamVars, normVars, genVars, tagMap, pushes, failed>>

\* oras.Tag(ctx, s.repo, digest, tag) succeeds
TagApplied ==
  /\ ppc = "tagging" /\ SkipEmpty(todo) # <<>>
  /\ LET tag == Head(SkipEmpty(todo)) IN
       tagMap' = [t \in DOMAIN tagMap \cup {tag} |->
                    IF t = tag THEN getDigestFromCID(pushing.cid) ELSE tagMap[t]]
  /\ todo' = Tail(SkipEmpty(todo))
  /\ attempts' = attempts + 1
  /\ UNCHANGED <<moreVars, streamVars, normVars, genVars, ppc, manifests, pushing, nTags, tagErrors,
                 pushResult, pushes, failed>>

\* oras.Tag fails: logged, appended to tagErrors
TagFailed ==
  /\ ppc = "tagging" /\ SkipEmpty(todo) # <<>>
  /\ tagErrors' = tagErrors + 1
  /\ failed' = failed \cup {<<getDigestFromCID(pushing.cid), Head(SkipEmpty(todo))>>}
  /\ todo' = Tail(SkipEmpty(todo))
  /\ attempts' = attempts + 1
  /\ UNCHANGED <<moreVars, streamVars, normVars, genVars, ppc, manifests, tagMap, pushing, nTags,
                 pushResult, pushes>>

\* the return failing the push as soon as one tag failed
PushReturnAnyErrorFails ==
  /\ ppc = "tagging" /\ SkipEmpty(todo) = <<>>
  /\ pushResult' = IF tagErrors > 0 THEN "Internal" ELSE "ok"
  /\ todo' = <<>>
  /\ pushes' = pushes + 1
  /\ ppc' = "idle"
  /\ UNCHANGED <<moreVars, streamVars, normVars, genVars, manifests, tagMap, pushing, nTags, tagErrors,
                 attempts, failed>>

\* after the loop: Internal if every tag failed, nil otherwise
PushReturn ==
  /\ ppc = "tagging" /\ SkipEmpty(todo) = <<>>
  /\ pushResult' = IF tagErrors > 0 /\ tagErrors = nTags THEN "Internal" ELSE "ok"
  /\ todo' = <<>>
  /\ pushes' = pushes + 1
  /\ ppc' = "idle"
  /\ UNCHANGED <<moreVars, streamVars, normVars, genVars, manifests, tagMap, pushing, nTags, tagErrors,
                 attempts, failed>>

RegNext == PushManifest \/ TagApplied \/ TagFailed \/ PushReturn

RegSpec == RegInit /\ [][RegNext]_vars

\* the record whose manifest has digest d
Stored == {r \in Records : getDigestFromCID(r.cid) \in manifests}

\* C13: between pushes in which no tag failed, every discovery tag of a
\* stored record resolves to the digest of that record's manifest
TagsResolveToOwnManifest ==
  (ppc = "idle" /\ failed = {}) =>
    \A r \in Stored :
      \A t \in Range(generateDiscoveryTags(r, DefaultTagStrategy)) :
        t \in DOMAIN tagMap /\ tagMap[t] = getDigestFromCID(r.cid)

\* C15: a returned call has tried every tag of its list; it returned
\* Internal if every tag failed and nil if at least one was applied
PartialTagFailureTolerated ==
  (ppc = "idle" /\ pushResult # "none") =>
    /\ attempts = nTags
    /\ (tagErrors = nTags) => pushResult = "Internal"
    /\ (tagErrors < nTags) => pushResult = "ok"

\* a call that failed on the CID tag and on a later tag, applied the rest
\* and returned nil
PartialTagFailureToleratedWitness ==
  /\ ppc = "idle"
  /\ pushResult = "ok"
  /\ pushes = 1
  /\ attempts = nTags
  /\ tagErrors = 2
  /\ <<getDigestFromCID(pushing.cid), pushing.cid>> \in failed
  /\ pushing.cid \notin DOMAIN tagMap
  /\ \E t \in DOMAIN tagMap : tagMap[t] = getDigestFromCID(pushing.cid)


----------------------------------------------------------------------------
\* server/authz: the rule-based (casbin) and the bundle (OPA) authorizer

\* the external list with Push on it
allowedExternalWithPush == {"Pull", "PullReferrer", "Lookup", "RequestRegistryCredentials", "Push"}

allowedExternalAPIMethods == {"Pull", "PullReferrer", "Lookup", "RequestRegistryCredentials"}

APIMethods == allowedExternalAPIMethods \cup {"Push", "Delete", "Publish", "Unpublish"}

\* configured trust domains: two names, none, the wildcard
ConfigDomains == {"dir.com", "service.org", "", "*"}
\* callers' trust domains
CallerDomains == {"dir.com", "service.org", ""}

\* getPolicies(cfg): rules (trust domain, API method)
getPolicies(domain) ==
  {<<domain, "*">>} \cup {<<"*", method>> : method \in allowedExternalAPIMethods}

\* the matcher of model.conf: "*" is a wildcard on either side of a rule
Matches(rule, sub, obj) ==
  /\ (rule[1] = sub \/ rule[1] = "*")
  /\ (rule[2] = obj \/ rule[2] = "*")

\* enforcer.Enforce(sub, obj) without evaluation error: some rule allows
Enforce(policies, sub, obj) == \E rule \in policies : Matches(rule, sub, obj)

\* results.Allowed(): one result, the boolean true
Allowed(result) == result = "true"

AuthInit ==
  /\ StreamIdle
  /\ TagsOff
  /\ BatchOff
  /\ Deployed
  /\ CodecOff
  /\ LoadOff
  /\ DirOff
  /\ apc = "call"
  /\ authorizer \in {"casbin", "opa"}
  /\ cfgTrustDomain \in ConfigDomains
  /\ trustDomain \in CallerDomains
  /\ apiMethod \in APIMethods
  /\ bundleAllow \in {"true", "false", "undefined"}
  /\ allowed = FALSE
  /\ authErr = FALSE

\* casbin Authorize: return a.enforcer.Enforce(trustDomain, apiMethod)
CasbinAuthorize ==
  /\ apc = "call" /\ authorizer = "casbin"
  /\ allowed' = Enforce(getPolicies(cfgTrustDomain), trustDomain, apiMethod)
  /\ authErr' = FALSE
  /\ apc' = "done"
  /\ UNCHANGED <<streamVars, tagVars, batchVars, agentVars, codecVars, loadVars, dirVars, authorizer, cfgTrustDomain, trustDomain, apiMethod, bundleAllow>>

\* Enforce returns (false, err)
CasbinAuthorizeErr ==
  /\ apc = "call" /\ authorizer = "casbin"
  /\ allowed' = FALSE
  /\ authErr' = TRUE
  /\ apc' = "done"
  /\ UNCHANGED <<streamVars, tagVars, batchVars, agentVars, codecVars, loadVars, dirVars, authorizer, cfgTrustDomain, trustDomain, apiMethod, bundleAllow>>

\* opaAuthz.Authorize, the query evaluated: return results.Allowed()
OpaAuthorize ==
  /\ apc = "call" /\ authorizer = "opa"
  /\ allowed' = Allowed(bundleAllow)
  /\ authErr' = FALSE
  /\ apc' = "done"
  /\ UNCHANGED <<streamVars, tagVars, batchVars, agentVars, codecVars, loadVars, dirVars, authorizer, cfgTrustDomain, trustDomain, apiMethod, bundleAllow>>

\* the error branch allowing the request
OpaAuthorizeErrAllows ==
  /\ apc = "call" /\ authorizer = "opa"
  /\ allowed' = TRUE
  /\ authErr' = TRUE
  /\ apc' = "done"
  /\ UNCHANGED <<streamVars, tagVars, batchVars, agentVars, codecVars, loadVars, dirVars, authorizer, cfgTrustDomain, trustDomain, apiMethod, bundleAllow>>

\* opaAuthz.Authorize, c.query.Eval returned an error: logged, return false
OpaAuthorizeErr ==
  /\ apc = "call" /\ authorizer = "opa"
  /\ allowed' = FALSE
  /\ authErr' = TRUE
  /\ apc' = "done"
  /\ UNCHANGED <<streamVars, tagVars, batchVars, agentVars, codecVars, loadVars, dirVars, authorizer, cfgTrustDomain, trustDomain, apiMethod, bundleAllow>>

AuthNext == CasbinAuthorize \/ CasbinAuthorizeErr \/ OpaAuthorize \/ OpaAuthorizeErr

AuthSpec == AuthInit /\ [][AuthNext]_vars

DefaultPolicyDecision ==
  allowed <=> (trustDomain = cfgTrustDomain \/ apiMethod \in {"Pull", "PullReferrer", "Lookup",
                                                              "RequestRegistryCredentials"})

\* C21 (as claimed): for every configured trust domain D the rule-based
\* authorizer allows a caller of D everything and any other caller exactly
\* Pull, PullReferrer, Lookup and RequestRegistryCredentials
DefaultPolicyForEveryDomain ==
  (apc = "done" /\ authorizer = "casbin" /\ ~authErr) => DefaultPolicyDecision

\* C21 (amended): the same for every configured trust domain but "*",
\* the wildcard of the rules
DefaultPolicyForNamedDomain ==
  (apc = "done" /\ authorizer = "casbin" /\ ~authErr /\ cfgTrustDomain # "*")
    => DefaultPolicyDecision

\* the server has no trust domain configured, and neither has the caller
DefaultPolicyForNamedDomainWitness ==
  /\ apc = "done" /\ authorizer = "casbin" /\ ~authErr
  /\ cfgTrustDomain = "" /\ trustDomain = ""
  /\ apiMethod = "Push"
  /\ allowed

\* C22: an Authorize whose evaluation returned an error denies
EvaluationErrorDenies ==
  (apc = "done" /\ authErr) => ~allowed

\* the bundle would allow the request, the evaluation failed
EvaluationErrorDeniesWitness ==
  /\ apc = "done" /\ authErr
  /\ authorizer = "opa"
  /\ bundleAllow = "true"
  /\ ~allowed


----------------------------------------------------------------------------
\* api/core/v1: CanonicalMarshal and CanonicalUnmarshal

Variants    == {"v1", "v2", "v3"}
\* a field is unset, set, or set to a string that is not UTF-8
FieldValues == {"", "x", "\\xff"}

\* Record{} with no variant data, and records with one variant set
EmptyRecord == [data |-> "none", fields |-> ZeroFields]
CodecRecords ==
  {NilRecord, EmptyRecord}
  \cup {[data |-> v, fields |-> fs] : v \in Variants, fs \in [FieldNames -> FieldValues]}

\* encoding/json sorts the keys of an object
SortedFields == <<"description", "name", "version">>

HasValue(member) == member[2] # ""

\* protojson.Marshal with EmitUnpopulated false: the populated fields in
\* the order of their declaration, under the name of the variant; invalid
\* UTF-8 is an error; the white space of the output is not stable
protojsonMarshal(r, space) ==
  IF \E f \in FieldNames : r.fields[f] = "\\xff"
  THEN [err |-> "marshal", bytes |-> NilBytes]
  ELSE [err |-> "none",
        bytes |-> [nil |-> FALSE, space |-> space, top |-> r.data,
                   members |-> SelectSeq([i \in 1..Len(DeclaredFields) |->
                                            <<DeclaredFields[i], r.fields[DeclaredFields[i]]>>],
                                         HasValue)]]

\* json.Unmarshal into interface{} and json.Marshal: no white space, the
\* keys of every object sorted
jsonNormalize(text) ==
  LET keys  == {text.members[i][1] : i \in 1..Len(text.members)}
      At(k) == CHOOSE i \in 1..Len(text.members) : text.members[i][1] = k
      InText(k) == k \in keys
      order == SelectSeq(SortedFields, InText)
  IN [text EXCEPT !.space = FALSE,
                  !.members = [i \in 1..Len(order) |-> text.members[At(order[i])]]]

\* CanonicalMarshal that returns the output of protojson as it is
CanonicalMarshalNoNormalize(r, space) ==
  IF r.data = "nil" THEN [err |-> "none", bytes |-> NilBytes]
  ELSE protojsonMarshal(r, space)

\* CanonicalMarshal that refuses a record without variant data
CanonicalMarshalRejectsEmpty(r, space) ==
  IF r.data = "nil" THEN [err |-> "none", bytes |-> NilBytes]
  ELSE IF r.data = "none" THEN [err |-> "marshal", bytes |-> NilBytes]
  ELSE LET json == protojsonMarshal(r, space)
       IN IF json.err # "none" THEN json
          ELSE [err |-> "none", bytes |-> jsonNormalize(json.bytes)]

CanonicalMarshal(r, space) ==
  IF r.data = "nil" THEN [err |-> "none", bytes |-> NilBytes]
  ELSE LET json == protojsonMarshal(r, space)
       IN IF json.err # "none" THEN json
          ELSE [err |-> "none", bytes |-> jsonNormalize(json.bytes)]

\* a lookup that never finds the key
MemberMissing(text, f) == ""

\* the value of key f in the variant's object, "" if it is not there
Member(text, f) ==
  IF \E i \in 1..Len(text.members) : text.members[i][1] = f
  THEN text.members[CHOOSE i \in 1..Len(text.members) : text.members[i][1] = f][2]
  ELSE ""

\* CanonicalUnmarshal that reads every variant as V1
CanonicalUnmarshalAsV1(data) ==
  IF data.nil THEN [err |-> "unmarshal", record |-> NilRecord]
  ELSE [err |-> "none",
        record |-> [data |-> IF data.top = "none" THEN "none" ELSE "v1",
                    fields |-> [f \in FieldNames |-> Member(data, f)]]]

\* CanonicalUnmarshal: protojson.Unmarshal into a new Record; no input is
\* a syntax error
CanonicalUnmarshal(data) ==
  IF data.nil THEN [err |-> "unmarshal", record |-> NilRecord]
  ELSE [err |-> "none",
        record |-> [data |-> data.top, fields |-> [f \in FieldNames |-> Member(data, f)]]]

\* GetCid: CIDv1(sha256(canonical bytes)), one CID for one byte string
GetCid(bytes) == <<"cidv1", "sha256", bytes>>

CodecInit ==
  /\ StreamIdle
  /\ TagsOff
  /\ BatchOff
  /\ Deployed
  /\ AuthOff
  /\ LoadOff
  /\ DirOff
  /\ cpc = "marshal1"
  /\ rec1 \in CodecRecords
  /\ rec2 \in CodecRecords
  /\ enc1 = NotEncoded /\ enc2 = NotEncoded /\ dec = NotDecoded /\ enc3 = NotEncoded

Marshal1 ==
  /\ cpc = "marshal1"
  /\ \E space \in BOOLEAN : enc1' = CanonicalMarshal(rec1, space)
  /\ cpc' = "marshal2"
  /\ UNCHANGED <<streamVars, tagVars, batchVars, agentVars, authVars, loadVars, dirVars, rec1, rec2, enc2, dec, enc3>>

Marshal2 ==
  /\ cpc = "marshal2"
  /\ \E space \in BOOLEAN : enc2' = CanonicalMarshal(rec2, space)
  /\ cpc' = IF enc1.err = "none" THEN "unmarshal" ELSE "done"
  /\ UNCHANGED <<streamVars, tagVars, batchVars, agentVars, authVars, loadVars, dirVars, rec1, rec2, enc1, dec, enc3>>

Unmarshal ==
  /\ cpc = "unmarshal"
  /\ dec' = CanonicalUnmarshal(enc1.bytes)
  /\ cpc' = IF CanonicalUnmarshal(enc1.bytes).err = "none" THEN "remarshal" ELSE "done"
  /\ UNCHANGED <<streamVars, tagVars, batchVars, agentVars, authVars, loadVars, dirVars, rec1, rec2, enc1, enc2, enc3>>

Remarshal ==
  /\ cpc = "remarshal"
  /\ \E space \in BOOLEAN : enc3' = CanonicalMarshal(dec.record, space)
  /\ cpc' = "done"
  /\ UNCHANGED <<streamVars, tagVars, batchVars, agentVars, authVars, loadVars, dirVars, rec1, rec2, enc1, enc2, dec>>

CodecNext == Marshal1 \/ Marshal2 \/ Unmarshal \/ Remarshal

CodecSpec == CodecInit /\ [][CodecNext]_vars

RoundTrip ==
  /\ dec.err = "none"
  /\ enc3.err = "none"
  /\ enc3.bytes = enc1.bytes

\* C24 (as claimed): for every record CanonicalMarshal returns no error
\* for, decoding its bytes and marshalling again gives the same bytes (and
\* with them the same CID)
RoundTripByteIdentical ==
  (cpc = "done" /\ enc1.err = "none") => RoundTrip

\* C24 (amended): the same for every record but the nil record, whose nil
\* bytes CanonicalUnmarshal refuses
RoundTripByteIdenticalNonNil ==
  (cpc = "done" /\ enc1.err = "none" /\ rec1 # NilRecord) => RoundTrip

RoundTripByteIdenticalNonNilWitness ==
  /\ cpc = "done"
  /\ rec1.data = "v3" /\ rec1.fields["name"] = "x" /\ rec1.fields["description"] = "x"
  /\ rec1.fields["version"] = ""
  /\ dec.record = rec1
  /\ enc3.bytes = enc1.bytes
  /\ enc1.bytes.members = << <<"description", "x">>, <<"name", "x">> >>


BothMarshalled ==
  /\ cpc \in {"unmarshal", "remarshal", "done"}
  /\ enc1.err = "none" /\ enc2.err = "none"

\* C25: two records of different variants with equal fields have different
\* canonical bytes and CIDs; two records of one variant with equal fields,
\* marshalled separately, have the same canonical bytes and CID
VariantIsPartOfCanonicalForm ==
  BothMarshalled =>
    /\ (/\ rec1.data \in Variants /\ rec2.data \in Variants
        /\ rec1.data # rec2.data
        /\ rec1.fields = rec2.fields)
       => (enc1.bytes # enc2.bytes /\ GetCid(enc1.bytes) # GetCid(enc2.bytes))
    /\ (rec1.data \in Variants /\ rec1 = rec2)
       => (enc1.bytes = enc2.bytes /\ GetCid(enc1.bytes) = GetCid(enc2.bytes))

\* a V1 and a V3 record with the same name and version
VariantIsPartOfCanonicalFormWitness ==
  /\ BothMarshalled
  /\ rec1.data = "v1" /\ rec2.data = "v3"
  /\ rec1.fields = rec2.fields
  /\ rec1.fields["name"] = "x" /\ rec1.fields["version"] = "x"
  /\ enc1.bytes.members = enc2.bytes.members
  /\ enc1.bytes # enc2.bytes

\* the canonical form of an object without members: {}
EmptyObject == [nil |-> FALSE, space |-> FALSE, top |-> "none", members |-> <<>>]

\* C26 (as claimed): for a non-nil record without variant data
\* CanonicalMarshal returns an error and no bytes
EmptyRecordIsInvalid ==
  (cpc # "marshal1" /\ cpc # "off" /\ rec1 = EmptyRecord)
    => (enc1.err = "marshal" /\ enc1.bytes = NilBytes)

\* C26 (amended): for a non-nil record without variant data
\* CanonicalMarshal returns the bytes {} and no error
EmptyRecordIsEmptyObject ==
  (cpc # "marshal1" /\ cpc # "off" /\ rec1 = EmptyRecord)
    => (enc1.err = "none" /\ enc1.bytes = EmptyObject)

EmptyRecordIsEmptyObjectWitness ==
  /\ cpc = "done"
  /\ rec1 = EmptyRecord
  /\ enc1.bytes = EmptyObject
  /\ dec.record = EmptyRecord
  /\ enc3.bytes = EmptyObject

\* ------------------------------------------------------------------
\* types: DetectOASFVersion and LoadOASFFromReader
\* ------------------------------------------------------------------

\* the values of a document's schema_version member: no such member, JSON
\* null, a value that is not a string, or a string
SchemaVersions == {"absent", "null", "number", "", "v1", "v2", "v3", "v4", "v1alpha1"}

\* the documents read: malformed text, null, an array, and objects
Documents ==
  {[kind |-> "malformed", schemaVersion |-> "absent", fits |-> {}],
   [kind |-> "array", schemaVersion |-> "absent", fits |-> {}],
   NullDocument}
  \cup {[kind |-> "object", schemaVersion |-> sv, fits |-> f] :
          sv \in SchemaVersions, f \in SUBSET Variants}

\* json.Unmarshal into VersionDetector: the error, or the string the
\* SchemaVersion field holds afterwards
UnmarshalDetector(data) ==
  IF data.kind \in {"malformed", "array"} THEN [err |-> TRUE, value |-> ""]
  ELSE IF data.kind = "null" THEN [err |-> FALSE, value |-> ""]
  ELSE IF data.schemaVersion = "number" THEN [err |-> TRUE, value |-> ""]
  ELSE IF data.schemaVersion \in {"absent", "null"} THEN [err |-> FALSE, value |-> ""]
  ELSE [err |-> FALSE, value |-> data.schemaVersion]

DetectOASFVersionNoDefault(data) ==
  LET detector == UnmarshalDetector(data)
  IN  IF detector.err THEN [version |-> "", err |-> TRUE]
      ELSE [version |-> detector.value, err |-> FALSE]

DetectOASFVersion(data) ==
  LET detector == UnmarshalDetector(data)
  IN  IF detector.err THEN [version |-> "", err |-> TRUE]
      ELSE IF detector.value = "" THEN [version |-> "v1", err |-> FALSE]
      ELSE [version |-> detector.value, err |-> FALSE]

\* json.Unmarshal of the document into the Go type of one variant
UnmarshalVariant(data, variant) ==
  data.kind = "null" \/ (data.kind = "object" /\ variant \in data.fits)

LoadInit ==
  /\ StreamIdle
  /\ TagsOff
  /\ BatchOff
  /\ Deployed
  /\ AuthOff
  /\ CodecOff
  /\ DirOff
  /\ lpc = "read"
  /\ input \in Documents
  /\ version = ""
  /\ detectErr = FALSE
  /\ loaded = "nil"
  /\ loadErr = "none"

\* io.ReadAll returns the whole document
ReadAll ==
  /\ lpc = "read"
  /\ lpc' = "detect"
  /\ UNCHANGED <<streamVars, tagVars, batchVars, agentVars, authVars, codecVars, dirVars, input, version, detectErr, loaded, loadErr>>

\* io.ReadAll fails
ReadAllErr ==
  /\ lpc = "read"
  /\ loaded' = "nil"
  /\ loadErr' = "read"
  /\ lpc' = "done"
  /\ UNCHANGED <<streamVars, tagVars, batchVars, agentVars, authVars, codecVars, dirVars, input, version, detectErr>>

DetectVersion ==
  /\ lpc = "detect"
  /\ LET detected == DetectOASFVersion(input)
     IN  /\ version' = detected.version
         /\ detectErr' = detected.err
         /\ IF detected.err
            THEN loaded' = "nil" /\ loadErr' = "detect" /\ lpc' = "done"
            ELSE UNCHANGED <<loaded, loadErr>> /\ lpc' = "switch"
  /\ UNCHANGED <<streamVars, tagVars, batchVars, agentVars, authVars, codecVars, dirVars, input>>

LoadVariantDefaultsToV1 ==
  /\ lpc = "switch"
  /\ LET variant == IF version \in Variants THEN version ELSE "v1"
     IN  IF UnmarshalVariant(input, variant)
         THEN loaded' = variant /\ loadErr' = "none"
         ELSE loaded' = "nil" /\ loadErr' = "unmarshal"
  /\ lpc' = "done"
  /\ UNCHANGED <<streamVars, tagVars, batchVars, agentVars, authVars, codecVars, dirVars, input, version, detectErr>>

\* the switch on the detected version
LoadVariant ==
  /\ lpc = "switch"
  /\ IF version \in Variants
     THEN IF UnmarshalVariant(input, version)
          THEN loaded' = version /\ loadErr' = "none"
          ELSE loaded' = "nil" /\ loadErr' = "unmarshal"
     ELSE loaded' = "nil" /\ loadErr' = "unsupported"
  /\ lpc' = "done"
  /\ UNCHANGED <<streamVars, tagVars, batchVars, agentVars, authVars, codecVars, dirVars, input, version, detectErr>>

LoadNext ==
  \/ ReadAll
  \/ ReadAllErr
  \/ DetectVersion
  \/ LoadVariant

LoadSpec == LoadInit /\ [][LoadNext]_vars

Detected == lpc \in {"switch", "done"} /\ loadErr # "read"

NoSchemaVersion == input.kind = "object" /\ input.schemaVersion \in {"absent", ""}
StringSchemaVersion == input.kind = "object" /\ input.schemaVersion \in {"v1", "v2", "v3", "v4", "v1alpha1"}

Agent(variant, name, ver, description) ==
  [data |-> variant,
   fields |-> [f \in FieldNames |->
                 IF f = "name" THEN name ELSE IF f = "version" THEN ver ELSE description]]

\* the records the clients hold: no record, a record without variant
\* data, agents that share labels, and one that cannot be canonicalized
DirRecords ==
  {NilRecord,
   EmptyRecord,
   Agent("v1", "x", "", ""),
   Agent("v1", "x", "x", ""),
   Agent("v2", "x", "x", ""),
   Agent("v1", "\\xff", "", "")}

\* the labels derived from a record's metadata, the three fields of
\* the record standing for its skills, domains and features
Labels(r) ==
  {<<"/skills", r.fields["name"]>>,
   <<"/domains", r.fields["version"]>>,
   <<"/features", r.fields["description"]>>}
  \ {<<kind, "">> : kind \in {"/skills", "/domains", "/features"}}

AllLabels == {<<"/skills", "x">>, <<"/domains", "x">>, <<"/features", "x">>}
Queries == SUBSET AllLabels \ {{}}

\* the CID of a record the store accepts
Cid(r) == GetCid(CanonicalMarshal(r, FALSE).bytes)
Accepted(r) == r # NilRecord /\ CanonicalMarshal(r, FALSE).err = "none"
Refs == {Cid(r) : r \in {a \in DirRecords : Accepted(a)}}

DirInit ==
  /\ StreamIdle
  /\ TagsOff
  /\ BatchOff
  /\ Deployed
  /\ AuthOff
  /\ CodecOff
  /\ LoadOff
  /\ store = {}
  /\ edges = {}
  /\ pushed = {}
  /\ published = {}
  /\ retired = {}
  /\ reply = NoReply

Manifests(ref) == {m \in store : m.cid = ref}

\* Push(record): canonicalize, hash, upload; returns the CID
StorePush ==
  /\ \E r \in DirRecords, space \in BOOLEAN :
       LET canonical == CanonicalMarshal(r, space)
       IN  IF r = NilRecord \/ canonical.err # "none"
           THEN /\ reply' = [NoReply EXCEPT !.op = "push", !.err = "InvalidRecord"]
                /\ UNCHANGED <<store, pushed>>
           ELSE LET ref == GetCid(canonical.bytes)
                IN  /\ store' = store \cup {[cid |-> ref, bytes |-> canonical.bytes]}
                    /\ pushed' = pushed \cup {[record |-> r, cid |-> ref]}
                    /\ reply' = [NoReply EXCEPT !.op = "push", !.ref = ref]
  /\ UNCHANGED <<streamVars, tagVars, batchVars, agentVars, authVars, codecVars, loadVars, edges, published, retired>>

\* Pull(ref): fetch the manifest and layer of the CID, decode
StorePull ==
  /\ \E ref \in Refs :
       IF Manifests(ref) = {}
       THEN reply' = [NoReply EXCEPT !.op = "pull", !.ref = ref, !.err = "NotFound"]
       ELSE \E m \in Manifests(ref) :
              LET decoded == CanonicalUnmarshal(m.bytes)
              IN  reply' = [NoReply EXCEPT !.op = "pull", !.ref = ref,
                                           !.err = decoded.err, !.record = decoded.record]
  /\ UNCHANGED <<streamVars, tagVars, batchVars, agentVars, authVars, codecVars, loadVars, store, edges, pushed, published, retired>>

\* Delete(ref): remove the manifest and layer of the CID
StoreDelete ==
  /\ \E ref \in Refs :
       IF Manifests(ref) = {}
       THEN /\ reply' = [NoReply EXCEPT !.op = "delete", !.ref = ref, !.err = "NotFound"]
            /\ UNCHANGED <<store, pushed>>
       ELSE /\ store' = store \ Manifests(ref)
            /\ pushed' = {p \in pushed : p.cid # ref}
            /\ reply' = [NoReply EXCEPT !.op = "delete", !.ref = ref]
  /\ UNCHANGED <<streamVars, tagVars, batchVars, agentVars, authVars, codecVars, loadVars, edges, published, retired>>

\* publish(ref): the CID must exist in the store; one edge for each label
\* of the record
RoutingPublish ==
  /\ \E ref \in Refs :
       IF Manifests(ref) = {}
       THEN /\ reply' = [NoReply EXCEPT !.op = "publish", !.ref = ref, !.err = "NotFound"]
            /\ UNCHANGED <<edges, published, retired>>
       ELSE \E m \in Manifests(ref) :
              /\ edges' = edges \cup {<<l, ref>> : l \in Labels(CanonicalUnmarshal(m.bytes).record)}
              /\ published' = published \cup {ref}
              /\ retired' = retired \ {ref}
              /\ reply' = [NoReply EXCEPT !.op = "publish", !.ref = ref]
  /\ UNCHANGED <<streamVars, tagVars, batchVars, agentVars, authVars, codecVars, loadVars, store, pushed>>

\* all edges but those of the CID
RemoveEdges(es, ref) == {e \in es : e[2] # ref}

\* unpublish(ref): the CID must exist in the store; removes all edges of
\* the CID
RoutingUnpublish ==
  /\ \E ref \in Refs :
       IF Manifests(ref) = {}
       THEN /\ reply' = [NoReply EXCEPT !.op = "unpublish", !.ref = ref, !.err = "NotFound"]
            /\ UNCHANGED <<edges, published, retired>>
       ELSE /\ edges' = RemoveEdges(edges, ref)
            /\ retired' = IF ref \in published THEN retired \cup {ref} ELSE retired
            /\ published' = published \ {ref}
            /\ reply' = [NoReply EXCEPT !.op = "unpublish", !.ref = ref]
  /\ UNCHANGED <<streamVars, tagVars, batchVars, agentVars, authVars, codecVars, loadVars, store, pushed>>

CidsOf(es, label) == {e[2] : e \in {d \in es : d[1] = label}}

RECURSIVE Enumerate(_)
Enumerate(set) ==
  IF set = {} THEN <<>>
  ELSE LET first == CHOOSE c \in set : TRUE
       IN  <<first>> \o Enumerate(set \ {first})

\* the stream list sends: the CIDs that every label of the query has
ListItems(es, query) ==
  Enumerate({c \in Refs : \A label \in query : c \in CidsOf(es, label)})

\* list(query)
RoutingList ==
  /\ \E query \in Queries :
       reply' = [NoReply EXCEPT !.op = "list", !.query = query, !.items = ListItems(edges, query)]
  /\ UNCHANGED <<streamVars, tagVars, batchVars, agentVars, authVars, codecVars, loadVars, store, edges, pushed, published, retired>>

DirNext ==
  \/ StorePush
  \/ StorePull
  \/ StoreDelete
  \/ RoutingPublish
  \/ RoutingUnpublish
  \/ RoutingList

DirSpec == DirInit /\ [][DirNext]_vars

SameCanonicalBytes(r1, r2) ==
  /\ CanonicalMarshal(r1, FALSE).err = "none"
  /\ CanonicalMarshal(r1, FALSE) = CanonicalMarshal(r2, FALSE)

\* C23: a Pull of a CID that a Push returned for record R, and that no
\* Delete has removed since, returns a record with the canonical bytes of
\* R, whatever was pushed or deleted in between.
PullReturnsPushed ==
  reply.op = "pull" =>
    \A p \in pushed :
      p.cid = reply.ref => (reply.err = "none" /\ SameCanonicalBytes(reply.record, p.record))

PullReturnsPushedWitness ==
  /\ reply.op = "pull"
  /\ reply.err = "none"
  /\ reply.record = Agent("v2", "x", "x", "")
  /\ \E p \in pushed : p.cid = reply.ref /\ p.record = reply.record
  /\ Cardinality(store) = 2
  /\ Cardinality(pushed) = 2

Occurrences(items, c) == Cardinality({i \in 1..Len(items) : items[i] = c})

\* C27: after publish(r) followed by unpublish(r), list by any non-empty
\* set of r's labels does not include r's CID, whatever is published or
\* unpublished for other records; the index has no edge of an unpublished
\* record and every edge of the records still published.
UnpublishedNotListed ==
  /\ \A r \in DirRecords :
       (Accepted(r) /\ Cid(r) \in retired) =>
         /\ \A e \in edges : e[2] # Cid(r)
         /\ (reply.op = "list" /\ reply.query \subseteq Labels(r)) =>
              Occurrences(reply.items, Cid(r)) = 0
  /\ \A r \in DirRecords :
       (Accepted(r) /\ Cid(r) \in published) => \A l \in Labels(r) : <<l, Cid(r)>> \in edges

UnpublishedNotListedWitness ==
  /\ reply.op = "list"
  /\ reply.query = {<<"/skills", "x">>}
  /\ Cid(Agent("v1", "x", "x", "")) \in retired
  /\ Cid(Agent("v2", "x", "x", "")) \in published
  /\ Len(reply.items) = 1

\* C28: for every published record with labels L and every non-empty
\* subset S of L, list(S) holds the record's CID exactly once; list
\* returns the intersection of the CID sets of the labels of the query,
\* each CID once, and nothing for an empty intersection.
ListIsIntersection ==
  reply.op = "list" =>
    /\ \A r \in DirRecords :
         (Accepted(r) /\ Cid(r) \in published /\ reply.query \subseteq Labels(r)) =>
           Occurrences(reply.items, Cid(r)) = 1
    /\ \A c \in Refs :
         Occurrences(reply.items, c) =
           IF \A label \in reply.query : c \in CidsOf(edges, label) THEN 1 ELSE 0
    /\ \A i \in 1..Len(reply.items) : reply.items[i] \in Refs

ListIsIntersectionWitness ==
  /\ reply.op = "list"
  /\ reply.query = {<<"/skills", "x">>, <<"/domains", "x">>}
  /\ Cardinality(published) = 3
  /\ Len(reply.items) = 2

----------------------------------------------------------------------------
\* More properties of the streaming core

\* C31: when the backend refuses to open the stream and ctx is not
\* cancelled, the call emits the stream-create error result and nothing
\* else, takes no item from inStream, sends nothing to the backend, starts
\* neither sender nor receiver, and then closes outStream.
StreamCreateRefused ==
  /\ []( ("create" \in faults /\ ~cancelled) =>
           /\ consumed = 0 /\ sent = 0 /\ closeCalls = 0
           /\ spc = "idle" /\ rpc = "idle"
           /\ Len(out) <= 1
           /\ \A k \in 1..Len(out) : out[k].kind = "create"
           /\ outClosed => Len(out) = 1 )
  /\ ("create" \in faults) ~> (outClosed \/ cancelled)

StreamCreateRefusedWitness ==
  /\ "create" \in faults /\ ~cancelled /\ outClosed
  /\ Len(out) = 1 /\ out[1].kind = "create"
  /\ inBuf > 0 /\ consumed = 0

SendResults == {k \in 1..Len(out) : out[k].kind = "send"}
RecvResults == {k \in 1..Len(out) : out[k].kind = "recv"}

\* the answers the backend gave before its first rejection
AnswersBeforeError ==
  IF backendErr
  THEN (CHOOSE i \in 1..Len(answers) :
          answers[i] = "err" /\ \A j \in 1..(i - 1) : answers[j] = "ok") - 1
  ELSE Len(answers)

\* what outStream holds when it closes after Send failed at position sent
SendErrorOutcome ==
  /\ Cardinality(SendResults) = 1
  /\ \A k \in SendResults : out[k].Index = sent /\ out[k].item = sent
  /\ consumed = sent + 1
  /\ closeCalls = 1
  /\ Cardinality(OkResults) = AnswersBeforeError
  /\ {out[k].item : k \in OkResults} = 0..(AnswersBeforeError - 1)
  /\ Cardinality(RecvResults) = (IF backendErr THEN 1 ELSE 0)
  /\ ~backendErr => Len(answers) = sent

\* C32 (as claimed): in a bidi op, when forwarding the item at position k
\* fails, outStream closes with one send error result with Index k, no later
\* item forwarded, the send half closed, and the responses to the items
\* 0..k-1 emitted up to the end or first error of the backend stream.
SendErrorAbortsSender ==
  /\ []((op \in BidiOps /\ "send" \in faults /\ outClosed) => SendErrorOutcome)
  /\ (op \in BidiOps /\ "send" \in faults /\ ~wrapper) ~> (outClosed \/ cancelled)

\* C32 (amended): the same, for a ctx that is not cancelled.
SendErrorAbortsSenderLive ==
  /\ []((op \in BidiOps /\ "send" \in faults /\ outClosed /\ ~cancelled) => SendErrorOutcome)
  /\ (op \in BidiOps /\ "send" \in faults /\ ~wrapper) ~> (outClosed \/ cancelled)

SendErrorAbortsSenderLiveWitness ==
  /\ op \in BidiOps /\ "send" \in faults /\ outClosed /\ ~cancelled
  /\ sent = 2 /\ Cardinality(OkResults) = 2
  /\ out[Len(out)].kind = "ok"

\* C34: after a scalar wrapper has returned with the single result it read,
\* every task of the stream op eventually terminates and outStream is
\* closed, whatever the outcome, even if ctx is never cancelled.
WrapperLeaksNoTask == (wrapper /\ ret # "none") ~> Terminated

\* C35: a scalar wrapper never returns the zero result (no value and no
\* error): when outStream is closed the wrapper has received a result.
WrapperNeverEmpty == (wrapper /\ op \in BidiOps) => ret # "empty"

\* the backend stream was opened
Opened == opens = 1 /\ "create" \notin faults

\* C37 (as claimed): whenever the backend stream was opened, the send half
\* is closed exactly once (CloseSend, or CloseAndRecv for delete) before
\* outStream is closed, on every exit path, and no item is sent on the
\* stream after that.
SendHalfClosedOnce ==
  /\ [](closeCalls <= 1)
  /\ []((outClosed /\ Opened) => closeCalls = 1)
  /\ [][closeCalls > 0 => sent' = sent]_vars

\* C37 (amended): the bidi ops close the send half exactly once on every
\* exit path of the sender; DeleteStream calls CloseAndRecv once when
\* inStream was closed, and not at all after a send error (nor, possibly,
\* after a cancellation); no item is sent after the send half was closed.
SendHalfClosedOnceBidi ==
  /\ [](closeCalls <= 1)
  /\ []((outClosed /\ Opened /\ op \in BidiOps) => closeCalls = 1)
  /\ []((outClosed /\ Opened /\ op = "delete" /\ "send" \in faults) => closeCalls = 0)
  /\ []((outClosed /\ Opened /\ op = "delete" /\ "send" \notin faults /\ ~cancelled)
          => closeCalls = 1)
  /\ [][closeCalls > 0 => sent' = sent]_vars

SendHalfClosedOnceBidiWitness ==
  /\ op \in BidiOps /\ outClosed /\ Opened /\ cancelled
  /\ "send" \in faults /\ closeCalls = 1 /\ sent = 1

\* C38: outStream is closed once, and only after the sender and the
\* receiver have finished: when it is closed no task is left that could
\* send on it, and nothing is delivered on it afterwards.
OutClosedAfterTasks ==
  /\ [](outClosed => (/\ mpc = "done"
                      /\ spc \in {"idle", "done"}
                      /\ rpc \in {"idle", "done"}))
  /\ [][outClosed => (outClosed' /\ out' = out /\ mpc' = "done")]_vars

OutClosedAfterTasksWitness ==
  /\ outClosed /\ op \in BidiOps /\ ~cancelled
  /\ spc = "done" /\ rpc = "done"
  /\ faults = {"send", "recv", "close"}
  /\ Len(out) = 4

----------------------------------------------------------------------------
\* Client.PushBatch / PullBatch / LookupBatch: a slice is fed through one
\* stream op and the results are collected

BatchInit ==
  /\ TagsOff /\ AuthOff /\ CodecOff /\ LoadOff /\ DirOff /\ Deployed
  /\ op \in BidiOps
  /\ wrapper = FALSE
  /\ cancelled = FALSE
  /\ fed = 0 /\ inBuf = 0 /\ inClosed = FALSE
  /\ consumed = 0
  /\ out = <<>> /\ outClosed = FALSE
  /\ mpc = "idle" /\ spc = "idle" /\ rpc = "idle"
  /\ sIndex = 0 /\ rIndex = 0 /\ rItem = NoItem
  /\ opens = 0 /\ sent = 0 /\ sentStreams = {}
  /\ answers = <<>> /\ respQ = <<>> /\ ended = FALSE
  /\ closeCalls = 0 /\ faults = {} /\ acked = FALSE
  /\ ret = "none" /\ pulled = "none"
  /\ bpc = "call"
  /\ bn \in 0..MaxItems
  /\ taken = 0
  /\ refs = <<>>
  /\ firstError = "nil"

\* if len(records) == 0 { return nil, nil }; otherwise the channel is made,
\* the feeding goroutine started and c.PushStream(ctx, recordChan) called
BatchCall ==
  /\ bpc = "call"
  /\ IF bn = 0
       THEN bpc' = "returned" /\ UNCHANGED mpc
       ELSE bpc' = "drain" /\ mpc' = "create"
  /\ UNCHANGED <<tagVars, authVars, codecVars, loadVars, dirVars, agentVars, callVars, cancelled,
                 prodVars, consumed, outVars, outClosed, spc, rpc, sIndex, rIndex, rItem,
                 opens, sent, sentStreams, backVars, closeCalls, faults, acked, pulled,
                 bn, taken, refs, firstError>>

\* for _, record := range records { recordChan <- record }: the channel has
\* room for the whole slice
BatchFeed ==
  /\ bpc \in {"drain", "returned"} /\ bn > 0
  /\ ~inClosed /\ fed < bn
  /\ fed' = fed + 1
  /\ inBuf' = inBuf + 1
  /\ UNCHANGED <<tagVars, authVars, codecVars, loadVars, dirVars, agentVars, callVars, cancelled,
                 inClosed, consumed, outVars, outClosed, mpc, spc, rpc, sIndex, rIndex, rItem,
                 opens, sent, sentStreams, backVars, closeCalls, faults, acked, pulled,
                 batchVars>>

\* defer close(recordChan)
BatchCloseIn ==
  /\ bpc \in {"drain", "returned"} /\ bn > 0
  /\ ~inClosed /\ fed = bn
  /\ inClosed' = TRUE
  /\ UNCHANGED <<tagVars, authVars, codecVars, loadVars, dirVars, agentVars, callVars, cancelled,
                 fed, inBuf, consumed, outVars, outClosed, mpc, spc, rpc, sIndex, rIndex, rItem,
                 opens, sent, sentStreams, backVars, closeCalls, faults, acked, pulled,
                 batchVars>>

\* Variant of BatchReceive: values that come after the first error are not
\* collected.
BatchReceiveStopsAtError ==
  /\ bpc = "drain" /\ taken < Len(out)
  /\ LET result == out[taken + 1] IN
       /\ firstError' = IF result.kind # "ok" /\ firstError = "nil" THEN result.kind ELSE firstError
       /\ refs' = IF result.kind = "ok" /\ firstError = "nil" THEN Append(refs, result.item) ELSE refs
  /\ taken' = taken + 1
  /\ UNCHANGED <<tagVars, authVars, codecVars, loadVars, dirVars, agentVars, streamVars, bpc, bn>>

\* the body of `for result := range results`; only a result without Error
\* carries a value
BatchReceive ==
  /\ bpc = "drain" /\ taken < Len(out)
  /\ LET result == out[taken + 1] IN
       /\ firstError' = IF result.kind # "ok" /\ firstError = "nil" THEN result.kind ELSE firstError
       /\ refs' = IF result.kind = "ok" THEN Append(refs, result.item) ELSE refs
  /\ taken' = taken + 1
  /\ UNCHANGED <<tagVars, authVars, codecVars, loadVars, dirVars, agentVars, streamVars, bpc, bn>>

\* results is closed and drained: return refs, firstError
BatchReturn ==
  /\ bpc = "drain" /\ outClosed /\ taken = Len(out)
  /\ bpc' = "returned"
  /\ UNCHANGED <<tagVars, authVars, codecVars, loadVars, dirVars, agentVars, streamVars,
                 bn, taken, refs, firstError>>

BatchNext ==
  \/ BatchCall
  \/ BatchFeed
  \/ BatchCloseIn
  \/ BatchReceive
  \/ BatchReturn
  \/ Cancel
  \/ Outer
  \/ Sender
  \/ Receiver
  \/ Backend

BatchSpec == BatchInit /\ [][BatchNext]_vars

IsOk(result) == result.kind = "ok"
IsError(result) == result.kind # "ok"

\* the values of the results of a sequence, and the error of its first
\* error result
ValuesOf(results) ==
  [k \in 1..Len(SelectSeq(results, IsOk)) |-> SelectSeq(results, IsOk)[k].item]
FirstErrorOf(results) ==
  IF SelectSeq(results, IsError) = <<>> THEN "nil" ELSE Head(SelectSeq(results, IsError)).kind

\* C33: a batch call on an empty slice returns (nil, nil) and opens no
\* backend stream; on a non-empty slice it feeds every item to one stream op
\* with one backend stream, returns once outStream is closed, and returns
\* the value of every successful result in emission order, those after the
\* first error included, with the first error emitted.
BatchCollectsEveryValue ==
  /\ fed <= bn
  /\ inClosed => fed = bn
  /\ opens <= 1
  /\ bpc = "returned" =>
       IF bn = 0
       THEN refs = <<>> /\ firstError = "nil" /\ opens = 0 /\ mpc = "idle"
       ELSE /\ opens = 1
            /\ outClosed
            /\ refs = ValuesOf(out)
            /\ firstError = FirstErrorOf(out)

BatchCollectsEveryValueWitness ==
  /\ bpc = "returned" /\ bn = MaxItems
  /\ firstError = "send"
  /\ Len(refs) = 2
  /\ out[1].kind = "send"

----------------------------------------------------------------------------
\* server/store/oci: Delete of a record after pushes

\* reconstructTagsFromRecord: the tags of the stored metadata under the
\* default strategy
reconstructTagsFromRecord(md, c) == generateTagsFromMetadata(md, c, DefaultTagStrategy)

\* Delete(ref): every tag reconstructed for the CID is removed from the
\* repository, then the manifest
DeleteManifest(record) ==
  /\ ppc = "idle"
  /\ record \in Stored
  /\ LET untagged == Range(reconstructTagsFromRecord(record.metadata, record.cid))
     IN  tagMap' = [t \in DOMAIN tagMap \ untagged |-> tagMap[t]]
  /\ manifests' = manifests \ {getDigestFromCID(record.cid)}
  /\ UNCHANGED <<moreVars, streamVars, normVars, genVars, ppc, pushing, todo, nTags, tagErrors,
                 pushResult, pushes, attempts, failed>>

DeleteRecord == \E record \in Records : DeleteManifest(record)

DeleteNext == RegNext \/ DeleteRecord

DeleteSpec == RegInit /\ [][DeleteNext]_vars

\* C36: the Delete of a record neither removes nor redirects a tag that
\* resolves to the manifest of another record.
DeleteKeepsOtherTags ==
  [][\A record \in Records :
       DeleteManifest(record) =>
         \A t \in DOMAIN tagMap :
           tagMap[t] # getDigestFromCID(record.cid) =>
             (t \in DOMAIN tagMap' /\ tagMap'[t] = tagMap[t])]_vars

----------------------------------------------------------------------------
\* blockchain: the AgentStore contract

MaxAdds == 3   \* successful add transactions

AgentInit ==
  /\ StreamIdle
  /\ TagsOff
  /\ AuthOff /\ CodecOff /\ LoadOff /\ DirOff /\ BatchOff
  /\ Deployed

\* function get(string calldata agent_id) public view returns(Agent memory)
get(agent_id) == agents[agent_id]

\* function total() public view returns(uint256)
total == total_agents

\* function add(Agent calldata req) public: the require reverts the
\* transaction when the slot of req.id holds an id that is not empty
add ==
  /\ total_agents < MaxAdds
  /\ \E id \in AgentIds, sig \in Signatures, sender \in Accounts :
       IF agents[id].id # ""
       THEN /\ receipt' = [id |-> id, signature |-> sig, sender |-> sender, status |-> "reverted"]
            /\ UNCHANGED <<total_agents, agents, stored>>
       ELSE /\ agents' = [agents EXCEPT ![id] = [id |-> id, signature |-> sig, owner |-> sender]]
            /\ total_agents' = total_agents + 1
            /\ stored' = stored \cup {id}
            /\ receipt' = [id |-> id, signature |-> sig, sender |-> sender, status |-> "ok"]
  /\ UNCHANGED <<streamVars, tagVars, authVars, codecVars, loadVars, dirVars, batchVars>>

AgentNext == add

AgentSpec == AgentInit /\ [][AgentNext]_vars

\* C39: total() is the number of ids that were stored; an add for a stored
\* id reverts and changes neither the agents nor the total; the entry of a
\* stored id never changes.  For every id, the empty string included.
AgentStoreConsistent ==
  /\ [](total = Cardinality(stored))
  /\ [][\A id \in stored :
          /\ get(id)' = get(id)
          /\ (receipt' # receipt /\ receipt'.id = id) =>
               (receipt'.status = "reverted" /\ total' = total)]_vars

===============================================================================
